---- MODULE Spec2Model ----
(***************************************************************************)
(* The JSON text processor of library/forms/jsonview.cpp: the value model  *)
(* (JsonValue, JsonObject, JsonArray), the tokenizer (JsonReader::scan),   *)
(* the token-stream parser (JsonReader::parse) and the serializer          *)
(* (JsonWriter).                                                           *)
(*                                                                         *)
(* A std::string is a sequence of characters, a character a one-character  *)
(* TLA+ string.  The character with code 0 is written NUL.  A double is    *)
(* the exact decimal [neg, ip, fp]: sign, digits of the integral part      *)
(* without leading zeros, digits of the fraction without trailing zeros.   *)
(* A thrown exception is a record [msg, arg]: the fixed part of the        *)
(* message and the text the code appends to it; NoEx is "nothing thrown".  *)
(***************************************************************************)
EXTENDS Integers, Sequences, FiniteSets, TLC

\* ------------------------------------------------------------------------
\* Characters and strings

NUL == "NUL"

\* the characters '\b' and '\v'
BS == "BS"

VT == "VT"

Digits == <<"0", "1", "2", "3", "4", "5", "6", "7", "8", "9">>

DigitChars == {Digits[i] : i \in 1..10}

DigitVal(c) == (CHOOSE i \in 1..10 : Digits[i] = c) - 1

\* the character codes that order the keys of a std::map<std::string, ...>
Code(c) ==
  CASE c = "a" -> 97
    [] c = "b" -> 98
    [] c = "c" -> 99
    [] c \in DigitChars -> 48 + DigitVal(c)
    [] OTHER -> 0

RECURSIVE StrLess(_, _)
StrLess(s, t) ==
  IF t = <<>> THEN FALSE
  ELSE IF s = <<>> THEN TRUE
  ELSE IF Code(Head(s)) # Code(Head(t)) THEN Code(Head(s)) < Code(Head(t))
  ELSE StrLess(Tail(s), Tail(t))

RECURSIVE Concat(_)
Concat(ss) == IF ss = <<>> THEN <<>> ELSE Head(ss) \o Concat(Tail(ss))

RECURSIVE Tabs(_)
Tabs(n) == IF n <= 0 THEN <<>> ELSE <<"\t">> \o Tabs(n - 1)

\* ------------------------------------------------------------------------
\* Exceptions

NoEx == [msg |-> "", arg |-> <<>>]

ParserException(m, a) == [msg |-> m, arg |-> a]

\* ------------------------------------------------------------------------
\* Doubles

Zero == [neg |-> FALSE, ip |-> <<>>, fp |-> <<>>]

RECURSIVE StripLead(_)
StripLead(ds) ==
  IF ds # <<>> /\ Head(ds) = "0" THEN StripLead(Tail(ds)) ELSE ds

RECURSIVE StripTrail(_)
StripTrail(ds) ==
  IF ds # <<>> /\ ds[Len(ds)] = "0" THEN StripTrail(SubSeq(ds, 1, Len(ds) - 1)) ELSE ds

MkDouble(neg, ip, fp) ==
  LET i == StripLead(ip)
      f == StripTrail(fp)
  IN  [neg |-> neg /\ (i # <<>> \/ f # <<>>), ip |-> i, fp |-> f]

\* modf(number, &intpart) == 0.0
modfIsZero(d) == d.fp = <<>>

\* ------------------------------------------------------------------------
\* JsonValue, JsonObject, JsonArray

VEmpty == "VEmpty"
VBoolean == "VBoolean"
VInt == "VInt"
VInt64 == "VInt64"
VUint64 == "VUint64"
VDouble == "VDouble"
VString == "VString"
VObject == "VObject"
VArray == "VArray"

\* JsonObject(): an empty std::map, a function from keys to values
JsonObject_new == <<>>

\* JsonArray(): an empty std::vector
JsonArray_new == <<>>

\* JsonValue::JsonValue()
JsonValue_new ==
  [_double |-> Zero, _integer64 |-> 0, _uint64 |-> 0, _bool |-> FALSE,
   _string |-> <<>>, _object |-> JsonObject_new, _array |-> JsonArray_new,
   _type |-> VEmpty]

\* JsonValue::JsonValue(const char *)
JsonValue_string(val) == [JsonValue_new EXCEPT !._string = val, !._type = VString]

\* JsonValue::JsonValue(bool)
JsonValue_bool(val) == [JsonValue_new EXCEPT !._bool = val, !._type = VBoolean]

\* JsonValue::JsonValue(int): val is not stored
JsonValue_int(val) == [JsonValue_new EXCEPT !._type = VInt]

\* JsonValue::JsonValue(int64_t)
JsonValue_int64(val) == [JsonValue_new EXCEPT !._integer64 = val, !._type = VInt64]

\* JsonValue::JsonValue(uint64_t)
JsonValue_uint64(val) == [JsonValue_new EXCEPT !._uint64 = val, !._type = VUint64]

\* JsonValue::JsonValue(const std::string &): _integer64 and _uint64 are not
\* initialised and hold i and u, whatever the memory held
JsonValue_stdstring(val, i, u) ==
  [JsonValue_new EXCEPT !._integer64 = i, !._uint64 = u, !._string = val, !._type = VString]

\* JsonValue::JsonValue(double)
JsonValue_double(val) == [JsonValue_new EXCEPT !._double = val, !._type = VDouble]

\* JsonValue::JsonValue(const JsonObject &)
JsonValue_object(val) == [JsonValue_new EXCEPT !._object = val, !._type = VObject]

\* JsonValue::JsonValue(const JsonArray &)
JsonValue_array(val) == [JsonValue_new EXCEPT !._array = val, !._type = VArray]

setType(value, type) == [value EXCEPT !._type = type]

setNumber(value, val) == [value EXCEPT !._double = val]

\* sets the tag along with the payload
setBoolTagged(value, val) == [value EXCEPT !._bool = val, !._type = VBoolean]

setBool(value, val) == [value EXCEPT !._bool = val]

setString(value, val) == [value EXCEPT !._string = val]

setInt64(value, val) == [value EXCEPT !._integer64 = val]

setUint64(value, val) == [value EXCEPT !._uint64 = val]

\* JsonObject::find(key) != end()
JsonObject_has(obj, key) == key \in DOMAIN obj

\* JsonObject::insert: _data[key] = value
JsonObject_insert(obj, key, value) ==
  [k \in (DOMAIN obj) \cup {key} |-> IF k = key THEN value ELSE obj[k]]

\* JsonArray::pushBack
pushBack(array, value) == Append(array, value)

\* the keys of a JsonObject in the iteration order of its std::map
RECURSIVE SortedKeys(_)
SortedKeys(ks) ==
  IF ks = {} THEN <<>>
  ELSE LET m == CHOOSE k \in ks : \A o \in ks \ {k} : StrLess(k, o)
       IN  <<m>> \o SortedKeys(ks \ {m})

\* ------------------------------------------------------------------------
\* JsonReader: character access

JsonTokenString == "JsonTokenString"
JsonTokenNumber == "JsonTokenNumber"
JsonTokenBoolean == "JsonTokenBoolean"
JsonTokenEmpty == "JsonTokenEmpty"
JsonTokenObjectStart == "JsonTokenObjectStart"
JsonTokenObjectEnd == "JsonTokenObjectEnd"
JsonTokenArrayStart == "JsonTokenArrayStart"
JsonTokenArrayEnd == "JsonTokenArrayEnd"
JsonTokenNext == "JsonTokenNext"
JsonTokenAssign == "JsonTokenAssign"

JsonToken(type, value) == [type |-> type, value |-> value]

\* positions are 0-based, as _actualPos is
peek(text, pos) == IF pos < Len(text) THEN text[pos + 1] ELSE NUL

eos(text, pos) == pos = Len(text)

isWhiteSpace(c) == c = " " \/ c = "\t" \/ c = "\n" \/ c = "\r"

\* isspace of <cctype> in the "C" locale
isspace(c) == c \in {" ", "\t", "\n", "\r", "\f", VT}

moveAhead(text, pos) == IF pos + 1 < Len(text) THEN pos + 1 ELSE Len(text)

RECURSIVE eatWhitespace(_, _)
eatWhitespace(text, pos) ==
  IF isWhiteSpace(peek(text, pos)) THEN eatWhitespace(text, moveAhead(text, pos)) ELSE pos

\* match: [ret, pos]
RECURSIVE matchLoop(_, _, _)
matchLoop(text, pos, pat) ==
  IF pat = <<>> THEN [ret |-> TRUE, pos |-> pos]
  ELSE IF eos(text, pos) \/ Head(pat) # peek(text, pos) THEN [ret |-> FALSE, pos |-> pos]
  ELSE matchLoop(text, moveAhead(text, pos), Tail(pat))

match(text, pos, pat) ==
  LET r == matchLoop(text, pos, pat)
  IN  [ret |-> pat # <<>> /\ r.ret, pos |-> r.pos]

\* ------------------------------------------------------------------------
\* JsonReader: the lexemes.  Each returns [ex, pos, value].

\* the while loop of getJsonString
RECURSIVE getJsonStringLoop(_, _, _)
getJsonStringLoop(text, pos, string) ==
  IF ~eos(text, pos) /\ peek(text, pos) # "\""
  THEN LET currentChar == peek(text, pos)
           p1 == moveAhead(text, pos)
       IN  IF currentChar = "\\" /\ ~eos(text, p1)
           THEN LET esc == peek(text, p1)
                    p2 == moveAhead(text, p1)
                IN  CASE esc \in {"/", "\"", "\\"} ->
                           getJsonStringLoop(text, p2, Append(string, esc))
                      [] esc = "b" -> getJsonStringLoop(text, p2, Append(string, BS))
                      [] esc = "f" -> getJsonStringLoop(text, p2, Append(string, "\f"))
                      [] esc = "n" -> getJsonStringLoop(text, p2, Append(string, "\n"))
                      [] esc = "r" -> getJsonStringLoop(text, p2, Append(string, "\r"))
                      [] esc = "t" -> getJsonStringLoop(text, p2, Append(string, "\t"))
                      [] OTHER ->
                           [ex |-> ParserException("Unrecognized escape sequence: \\", <<esc>>),
                            pos |-> p2, value |-> string]
           ELSE getJsonStringLoop(text, p1, Append(string, currentChar))
  ELSE [ex |-> NoEx, pos |-> pos, value |-> string]

\* ends the string at the first quote and keeps the backslashes
RECURSIVE rawStringLoop(_, _, _)
rawStringLoop(text, pos, string) ==
  IF ~eos(text, pos) /\ peek(text, pos) # "\""
  THEN rawStringLoop(text, moveAhead(text, pos), Append(string, peek(text, pos)))
  ELSE [ex |-> NoEx, pos |-> pos, value |-> string]

getJsonStringRaw(text, pos) ==
  LET r == rawStringLoop(text, moveAhead(text, pos), <<>>)
      m == match(text, r.pos, <<"\"">>)
  IN  IF ~m.ret
      THEN [ex |-> ParserException("Expected: \" ", <<>>), pos |-> m.pos, value |-> r.value]
      ELSE [ex |-> NoEx, pos |-> m.pos, value |-> r.value]

\* returns the string also when no quote closes it
getJsonStringUnclosed(text, pos) ==
  LET r == getJsonStringLoop(text, moveAhead(text, pos), <<>>)
      m == match(text, r.pos, <<"\"">>)
  IN  IF r.ex # NoEx THEN r ELSE [ex |-> NoEx, pos |-> m.pos, value |-> r.value]

getJsonString(text, pos) ==
  LET r == getJsonStringLoop(text, moveAhead(text, pos), <<>>)
      m == match(text, r.pos, <<"\"">>)
  IN  IF r.ex # NoEx THEN r
      ELSE IF ~m.ret
      THEN [ex |-> ParserException("Expected: \" ", <<>>), pos |-> m.pos, value |-> r.value]
      ELSE [ex |-> NoEx, pos |-> m.pos, value |-> r.value]

\* the for loop of checkJsonEmpty
RECURSIVE checkJsonEmptyLoop(_, _, _, _, _)
checkJsonEmptyLoop(text, pos, lit, i, emptyString) ==
  IF i < Len(lit) /\ ~eos(text, pos) /\ ~isspace(peek(text, pos))
  THEN checkJsonEmptyLoop(text, moveAhead(text, pos), lit, i + 1,
                          Append(emptyString, peek(text, pos)))
  ELSE [pos |-> pos, value |-> emptyString]

checkJsonEmpty(text, pos, lit) ==
  LET r == checkJsonEmptyLoop(text, pos, lit, 0, <<>>)
  IN  IF r.value # lit
      THEN [ex |-> ParserException("Unexpected token: ", r.value), pos |-> r.pos, value |-> <<>>]
      ELSE [ex |-> NoEx, pos |-> r.pos, value |-> <<>>]

\* the for loop of getJsonBoolean
RECURSIVE getJsonBooleanLoop(_, _, _, _, _)
getJsonBooleanLoop(text, pos, size, i, boolString) ==
  IF i < size /\ ~eos(text, pos)
  THEN getJsonBooleanLoop(text, moveAhead(text, pos), size, i + 1,
                          Append(boolString, peek(text, pos)))
  ELSE [pos |-> pos, value |-> boolString]

\* if (boolString == "true" && boolString == "false") throw
BooleanRejected(boolString) ==
  boolString = <<"t", "r", "u", "e">> /\ boolString = <<"f", "a", "l", "s", "e">>

getJsonBoolean(text, pos) ==
  LET size == IF peek(text, pos) = "f" THEN 5 ELSE 4
      r == getJsonBooleanLoop(text, pos, size, 0, <<>>)
  IN  IF BooleanRejected(r.value)
      THEN [ex |-> ParserException("Unexpected token: ", r.value), pos |-> r.pos, value |-> r.value]
      ELSE [ex |-> NoEx, pos |-> r.pos, value |-> r.value]

numericChars == DigitChars \cup {".", "e", "E", "-", "+"}

RECURSIVE getJsonNumberLoop(_, _, _)
getJsonNumberLoop(text, pos, number) ==
  IF ~eos(text, pos) /\ peek(text, pos) \in numericChars
  THEN getJsonNumberLoop(text, moveAhead(text, pos), Append(number, peek(text, pos)))
  ELSE [ex |-> NoEx, pos |-> pos, value |-> number]

getJsonNumber(text, pos) == getJsonNumberLoop(text, pos, <<>>)

\* ------------------------------------------------------------------------
\* JsonReader::scan: one iteration of its while (!eos()) loop.
\* [ex, pos, push, token]: the exception thrown, or the token pushed.

Structural(chr) ==
  CASE chr = "{" -> JsonTokenObjectStart
    [] chr = "}" -> JsonTokenObjectEnd
    [] chr = "[" -> JsonTokenArrayStart
    [] chr = "]" -> JsonTokenArrayEnd
    [] chr = "," -> JsonTokenNext
    [] chr = ":" -> JsonTokenAssign

Lexeme(type, r) == [ex |-> r.ex, pos |-> r.pos, token |-> JsonToken(type, r.value)]

scanIteration(text, pos) ==
  LET p == eatWhitespace(text, pos)
      chr == peek(text, p)
  IN  CASE chr \in {"{", "}", "[", "]", ",", ":"} ->
             [ex |-> NoEx, pos |-> moveAhead(text, p), token |-> JsonToken(Structural(chr), <<chr>>)]
        [] chr = "\"" -> Lexeme(JsonTokenString, getJsonString(text, p))
        [] chr \in DigitChars \cup {"-"} -> Lexeme(JsonTokenNumber, getJsonNumber(text, p))
        [] chr \in {"t", "f"} -> Lexeme(JsonTokenBoolean, getJsonBoolean(text, p))
        [] chr = "n" -> Lexeme(JsonTokenEmpty, checkJsonEmpty(text, p, <<"n", "u", "l", "l">>))
        [] chr = "u" ->
             Lexeme(JsonTokenEmpty,
                    checkJsonEmpty(text, p, <<"u", "n", "d", "e", "f", "i", "n", "e", "d">>))
        [] chr = NUL -> [ex |-> NoEx, pos |-> p, token |-> JsonToken(JsonTokenEmpty, <<>>)]
        [] OTHER ->
             [ex |-> ParserException("Unexpected start sequence: ", <<chr>>), pos |-> p,
              token |-> JsonToken(JsonTokenEmpty, <<>>)]

\* ------------------------------------------------------------------------
\* std::stringstream >> double, as libstdc++'s num_get does it: the longest
\* prefix accepted as sign, digits, point, digits, exponent; 0 when strtod
\* does not accept all of that prefix.

RECURSIVE DigitRun(_, _)
DigitRun(tok, i) ==
  IF i <= Len(tok) /\ tok[i] \in DigitChars THEN DigitRun(tok, i + 1) ELSE i

RECURSIVE DigitsToNat(_)
DigitsToNat(ds) ==
  IF ds = <<>> THEN 0 ELSE 10 * DigitsToNat(SubSeq(ds, 1, Len(ds) - 1)) + DigitVal(ds[Len(ds)])

RECURSIVE Zeros(_)
Zeros(n) == IF n <= 0 THEN <<>> ELSE <<"0">> \o Zeros(n - 1)

\* ip.fp times 10^e
Scale10(neg, ip, fp, e) ==
  LET ds == ip \o fp
      pt == Len(ip) + e
  IN  IF pt >= Len(ds) THEN MkDouble(neg, ds \o Zeros(pt - Len(ds)), <<>>)
      ELSE IF pt <= 0 THEN MkDouble(neg, <<>>, Zeros(0 - pt) \o ds)
      ELSE MkDouble(neg, SubSeq(ds, 1, pt), SubSeq(ds, pt + 1, Len(ds)))

strToDouble(tok) ==
  LET neg == tok # <<>> /\ tok[1] = "-"
      s0 == IF neg THEN 2 ELSE 1
      ipEnd == DigitRun(tok, s0)
      hasDot == ipEnd <= Len(tok) /\ tok[ipEnd] = "."
      fpEnd == IF hasDot THEN DigitRun(tok, ipEnd + 1) ELSE ipEnd
      ip == SubSeq(tok, s0, ipEnd - 1)
      fp == IF hasDot THEN SubSeq(tok, ipEnd + 1, fpEnd - 1) ELSE <<>>
      foundMantissa == ip # <<>> \/ fp # <<>>
      hasE == foundMantissa /\ fpEnd <= Len(tok) /\ tok[fpEnd] \in {"e", "E"}
      hasSign == hasE /\ fpEnd + 1 <= Len(tok) /\ tok[fpEnd + 1] \in {"+", "-"}
      exStart == IF hasSign THEN fpEnd + 2 ELSE fpEnd + 1
      exDigits == SubSeq(tok, exStart, DigitRun(tok, exStart) - 1)
      e == IF hasSign /\ tok[fpEnd + 1] = "-" THEN 0 - DigitsToNat(exDigits)
           ELSE DigitsToNat(exDigits)
  IN  IF ~foundMantissa THEN Zero
      ELSE IF hasE /\ exDigits = <<>> THEN Zero
      ELSE IF hasE THEN Scale10(neg, ip, fp, e)
      ELSE MkDouble(neg, ip, fp)

\* ------------------------------------------------------------------------
\* JsonReader: the parser.  tokens is _tokens, it the 0-based position of
\* _tokenIterator, _tokenEnd is Len(tokens).

\* processToken: [ex, it, ret]
processToken(tokens, it, type, skip, mustMatch) ==
  LET ret == it # Len(tokens) /\ tokens[it + 1].type = type
  IN  IF ~ret /\ mustMatch
      THEN [ex |-> IF it # Len(tokens)
                   THEN ParserException("Unexpected token: ", tokens[it + 1].value)
                   ELSE ParserException("Not compleated json data", <<>>),
            it |-> it, ret |-> ret]
      ELSE IF skip /\ ret
      THEN [ex |-> NoEx, it |-> it + 1, ret |-> it + 1 # Len(tokens)]
      ELSE [ex |-> NoEx, it |-> it, ret |-> ret]

\* The productions return [ex, it, value]: the exception thrown (or NoEx),
\* the position of the iterator, and the state in which the call leaves the
\* object it was given by reference.

\* tags by the spelling of the token instead of the value of the number
parseNumberBySpelling(tokens, it, value) ==
  LET number == strToDouble(tokens[it + 1].value)
      typed == IF \E i \in 1..Len(tokens[it + 1].value) : tokens[it + 1].value[i] = "."
               THEN setType(value, VDouble) ELSE setType(value, VInt)
  IN  [ex |-> NoEx, it |-> it + 1, value |-> setNumber(typed, number)]

\* tags every number Double
parseNumberAsDouble(tokens, it, value) ==
  LET number == strToDouble(tokens[it + 1].value)
  IN  [ex |-> NoEx, it |-> it + 1, value |-> setNumber(setType(value, VDouble), number)]

\* tags a number without a fractional part Int64
parseNumberAsInt64(tokens, it, value) ==
  LET number == strToDouble(tokens[it + 1].value)
      typed == IF modfIsZero(number) THEN setType(value, VInt64) ELSE setType(value, VDouble)
  IN  [ex |-> NoEx, it |-> it + 1, value |-> setNumber(typed, number)]

parseNumber(tokens, it, value) ==
  LET number == strToDouble(tokens[it + 1].value)
      typed == IF modfIsZero(number) THEN setType(value, VInt) ELSE setType(value, VDouble)
  IN  [ex |-> NoEx, it |-> it + 1, value |-> setNumber(typed, number)]

parseBoolean(tokens, it, value) ==
  LET isBool == tokens[it + 1].value = <<"t", "r", "u", "e">>
  IN  [ex |-> NoEx, it |-> it + 1, value |-> setType(setBool(value, isBool), VBoolean)]

parseString(tokens, it, value) ==
  [ex |-> NoEx, it |-> it + 1,
   value |-> setType(setString(value, tokens[it + 1].value), VString)]

parseEmpty(tokens, it, value) ==
  [ex |-> NoEx, it |-> it + 1, value |-> setType(value, VEmpty)]

\* reports the end of the data instead of the token it stopped at
UnexpectedTokenUnnamed(tokens, it) == ParserException("Unexpected json data end.", <<>>)

\* the default branch of parse(JsonValue &)
UnexpectedToken(tokens, it) == ParserException("Unexpected token: ", tokens[it + 1].value)

\* bool go = processToken(start, true) && _tokenIterator->getType() != start
EnterLoop(tokens, r, start) == r.ret /\ tokens[r.it + 1].type # start

RECURSIVE parseValue(_, _, _)
RECURSIVE parseObjectLoop(_, _, _)
RECURSIVE parseArrayLoop(_, _, _)

\* parse(JsonObject &): the body of while (go), and on leaving the loop the
\* final processToken(JsonTokenObjectEnd, true)
parseObjectLoop(tokens, it, obj) ==
  LET r1 == processToken(tokens, it, JsonTokenString, FALSE, TRUE)
      name == tokens[it + 1].value
      r2 == processToken(tokens, it + 1, JsonTokenAssign, TRUE, TRUE)
      r3 == parseValue(tokens, r2.it, JsonValue_new)
      obj2 == JsonObject_insert(obj, name, r3.value)
      r4 == processToken(tokens, r3.it, JsonTokenNext, TRUE, FALSE)
      r5 == processToken(tokens, r4.it, JsonTokenObjectEnd, TRUE, TRUE)
  IN  IF r1.ex # NoEx THEN [ex |-> r1.ex, it |-> r1.it, value |-> obj]
      ELSE IF r2.ex # NoEx THEN [ex |-> r2.ex, it |-> r2.it, value |-> obj]
      ELSE IF r3.ex # NoEx THEN [ex |-> r3.ex, it |-> r3.it, value |-> obj]
      ELSE IF JsonObject_has(obj, name)
      THEN [ex |-> ParserException("Duplicate member: ", name), it |-> r3.it, value |-> obj]
      ELSE IF r4.ret THEN parseObjectLoop(tokens, r4.it, obj2)
      ELSE [ex |-> r5.ex, it |-> r5.it, value |-> obj2]

\* parse(JsonObject &)
parseMembers(tokens, it, obj) ==
  LET r0 == processToken(tokens, it, JsonTokenObjectStart, TRUE, TRUE)
      r5 == processToken(tokens, r0.it, JsonTokenObjectEnd, TRUE, TRUE)
  IN  IF r0.ex # NoEx THEN [ex |-> r0.ex, it |-> r0.it, value |-> obj]
      ELSE IF EnterLoop(tokens, r0, JsonTokenObjectStart) THEN parseObjectLoop(tokens, r0.it, obj)
      ELSE [ex |-> r5.ex, it |-> r5.it, value |-> obj]

parseObject(tokens, it, value) ==
  LET typed == setType(value, VObject)
      r == parseMembers(tokens, it, typed._object)
  IN  [ex |-> r.ex, it |-> r.it, value |-> [typed EXCEPT !._object = r.value]]

\* parseArray: the body of while (go), and on leaving the loop the final
\* processToken(JsonTokenArrayEnd, true)
parseArrayLoop(tokens, it, array) ==
  LET r1 == parseValue(tokens, it, JsonValue_new)
      array2 == pushBack(array, r1.value)
      r2 == processToken(tokens, r1.it, JsonTokenNext, TRUE, FALSE)
      r3 == processToken(tokens, r2.it, JsonTokenArrayEnd, TRUE, TRUE)
  IN  IF r1.ex # NoEx THEN [ex |-> r1.ex, it |-> r1.it, value |-> array]
      ELSE IF r2.ret THEN parseArrayLoop(tokens, r2.it, array2)
      ELSE [ex |-> r3.ex, it |-> r3.it, value |-> array2]

parseArray(tokens, it, value) ==
  LET typed == setType(value, VArray)
      r0 == processToken(tokens, it, JsonTokenArrayStart, TRUE, TRUE)
      r3 == processToken(tokens, r0.it, JsonTokenArrayEnd, TRUE, TRUE)
      r == IF r0.ex # NoEx THEN [ex |-> r0.ex, it |-> r0.it, value |-> typed._array]
           ELSE IF EnterLoop(tokens, r0, JsonTokenArrayStart)
           THEN parseArrayLoop(tokens, r0.it, typed._array)
           ELSE [ex |-> r3.ex, it |-> r3.it, value |-> typed._array]
  IN  [ex |-> r.ex, it |-> r.it, value |-> [typed EXCEPT !._array = r.value]]

\* parse(JsonValue &)
parseValue(tokens, it, value) ==
  IF it = Len(tokens)
  THEN [ex |-> ParserException("Unexpected json data end.", <<>>), it |-> it, value |-> value]
  ELSE LET type == tokens[it + 1].type
       IN  CASE type = JsonTokenString -> parseString(tokens, it, value)
             [] type = JsonTokenNumber -> parseNumber(tokens, it, value)
             [] type = JsonTokenBoolean -> parseBoolean(tokens, it, value)
             [] type = JsonTokenEmpty -> parseEmpty(tokens, it, value)
             [] type = JsonTokenObjectStart -> parseObject(tokens, it, value)
             [] type = JsonTokenArrayStart -> parseArray(tokens, it, value)
             [] OTHER -> [ex |-> UnexpectedToken(tokens, it), it |-> it, value |-> value]

\* ------------------------------------------------------------------------
\* JsonReader: what the parser does with _tokenIterator.  Each function is
\* followed through the same branches as above and returns [ex, it, uses]:
\* uses lists, in the order in which they happen, the reads of the current
\* token (getType, getValue), the increments, and the completed iterations
\* of the loops of parse(JsonObject &) and parseArray, each with the
\* position of the iterator (for an iteration: where it began and ended).

Use(op, it) == [op |-> op, from |-> it, at |-> it]

Iterated(from, it) == [op |-> "iteration", from |-> from, at |-> it]

\* reads the type of the current token without comparing the iterator with
\* _tokenEnd first
processTokenUsesUnchecked(tokens, it, type, skip, mustMatch) ==
  LET ret == it # Len(tokens) /\ tokens[it + 1].type = type
  IN  <<Use("read", it)>>
        \o (IF ~ret /\ mustMatch
            THEN IF it # Len(tokens) THEN <<Use("read", it)>> ELSE <<>>
            ELSE IF skip /\ ret THEN <<Use("inc", it)>> ELSE <<>>)

\* processToken: getType() behind _tokenIterator != _tokenEnd, getValue()
\* behind the same test, ++_tokenIterator behind ret
processTokenUses(tokens, it, type, skip, mustMatch) ==
  LET ret == it # Len(tokens) /\ tokens[it + 1].type = type
  IN  (IF it # Len(tokens) THEN <<Use("read", it)>> ELSE <<>>)
        \o (IF ~ret /\ mustMatch
            THEN IF it # Len(tokens) THEN <<Use("read", it)>> ELSE <<>>
            ELSE IF skip /\ ret THEN <<Use("inc", it)>> ELSE <<>>)

\* what follows processToken(start, true) in the initialisation of go:
\* && _tokenIterator->getType() != start
EnterLoopUses(r) == IF r.ret THEN <<Use("read", r.it)>> ELSE <<>>

RECURSIVE parseValueUses(_, _)
RECURSIVE parseObjectLoopUses(_, _, _)
RECURSIVE parseArrayLoopUses(_, _)

\* parse(JsonObject &): the body of while (go) and the final processToken;
\* names are the keys of obj
parseObjectLoopUses(tokens, it, names) ==
  LET r1 == processToken(tokens, it, JsonTokenString, FALSE, TRUE)
      u1 == processTokenUses(tokens, it, JsonTokenString, FALSE, TRUE)
      name == tokens[it + 1].value
      u2 == u1 \o <<Use("read", it), Use("inc", it)>>
              \o processTokenUses(tokens, it + 1, JsonTokenAssign, TRUE, TRUE)
      r2 == processToken(tokens, it + 1, JsonTokenAssign, TRUE, TRUE)
      r3 == parseValueUses(tokens, r2.it)
      u3 == u2 \o r3.uses
      r4 == processToken(tokens, r3.it, JsonTokenNext, TRUE, FALSE)
      u4 == u3 \o processTokenUses(tokens, r3.it, JsonTokenNext, TRUE, FALSE)
              \o <<Iterated(it, r4.it)>>
      r5 == processToken(tokens, r4.it, JsonTokenObjectEnd, TRUE, TRUE)
      u5 == u4 \o processTokenUses(tokens, r4.it, JsonTokenObjectEnd, TRUE, TRUE)
      rest == parseObjectLoopUses(tokens, r4.it, names \cup {name})
  IN  IF r1.ex # NoEx THEN [ex |-> r1.ex, it |-> r1.it, uses |-> u1]
      ELSE IF r2.ex # NoEx THEN [ex |-> r2.ex, it |-> r2.it, uses |-> u2]
      ELSE IF r3.ex # NoEx THEN [ex |-> r3.ex, it |-> r3.it, uses |-> u3]
      ELSE IF name \in names
      THEN [ex |-> ParserException("Duplicate member: ", name), it |-> r3.it, uses |-> u3]
      ELSE IF r4.ret THEN [rest EXCEPT !.uses = u4 \o @]
      ELSE [ex |-> r5.ex, it |-> r5.it, uses |-> u5]

\* parseObject, parse(JsonObject &) on the empty object of a fresh value
parseObjectUses(tokens, it) ==
  LET r0 == processToken(tokens, it, JsonTokenObjectStart, TRUE, TRUE)
      u0 == processTokenUses(tokens, it, JsonTokenObjectStart, TRUE, TRUE) \o EnterLoopUses(r0)
      r5 == processToken(tokens, r0.it, JsonTokenObjectEnd, TRUE, TRUE)
      u5 == u0 \o processTokenUses(tokens, r0.it, JsonTokenObjectEnd, TRUE, TRUE)
      loop == parseObjectLoopUses(tokens, r0.it, {})
  IN  IF r0.ex # NoEx
      THEN [ex |-> r0.ex, it |-> r0.it,
            uses |-> processTokenUses(tokens, it, JsonTokenObjectStart, TRUE, TRUE)]
      ELSE IF EnterLoop(tokens, r0, JsonTokenObjectStart) THEN [loop EXCEPT !.uses = u0 \o @]
      ELSE [ex |-> r5.ex, it |-> r5.it, uses |-> u5]

\* parseArray: the body of while (go) and the final processToken
parseArrayLoopUses(tokens, it) ==
  LET r1 == parseValueUses(tokens, it)
      r2 == processToken(tokens, r1.it, JsonTokenNext, TRUE, FALSE)
      u2 == r1.uses \o processTokenUses(tokens, r1.it, JsonTokenNext, TRUE, FALSE)
              \o <<Iterated(it, r2.it)>>
      r3 == processToken(tokens, r2.it, JsonTokenArrayEnd, TRUE, TRUE)
      u3 == u2 \o processTokenUses(tokens, r2.it, JsonTokenArrayEnd, TRUE, TRUE)
      rest == parseArrayLoopUses(tokens, r2.it)
  IN  IF r1.ex # NoEx THEN r1
      ELSE IF r2.ret THEN [rest EXCEPT !.uses = u2 \o @]
      ELSE [ex |-> r3.ex, it |-> r3.it, uses |-> u3]

parseArrayUses(tokens, it) ==
  LET r0 == processToken(tokens, it, JsonTokenArrayStart, TRUE, TRUE)
      u0 == processTokenUses(tokens, it, JsonTokenArrayStart, TRUE, TRUE) \o EnterLoopUses(r0)
      r3 == processToken(tokens, r0.it, JsonTokenArrayEnd, TRUE, TRUE)
      u3 == u0 \o processTokenUses(tokens, r0.it, JsonTokenArrayEnd, TRUE, TRUE)
      loop == parseArrayLoopUses(tokens, r0.it)
  IN  IF r0.ex # NoEx
      THEN [ex |-> r0.ex, it |-> r0.it,
            uses |-> processTokenUses(tokens, it, JsonTokenArrayStart, TRUE, TRUE)]
      ELSE IF EnterLoop(tokens, r0, JsonTokenArrayStart) THEN [loop EXCEPT !.uses = u0 \o @]
      ELSE [ex |-> r3.ex, it |-> r3.it, uses |-> u3]

\* parse(JsonValue &) and the functions of its switch: parseString,
\* parseNumber and parseBoolean read the text of the token and increment,
\* parseEmpty increments
parseValueUses(tokens, it) ==
  IF it = Len(tokens)
  THEN [ex |-> ParserException("Unexpected json data end.", <<>>), it |-> it, uses |-> <<>>]
  ELSE LET type == tokens[it + 1].type
           sw == <<Use("read", it)>>
           sub == IF type = JsonTokenObjectStart THEN parseObjectUses(tokens, it)
                  ELSE parseArrayUses(tokens, it)
       IN  CASE type \in {JsonTokenString, JsonTokenNumber, JsonTokenBoolean} ->
                  [ex |-> NoEx, it |-> it + 1,
                   uses |-> sw \o <<Use("read", it), Use("inc", it)>>]
             [] type = JsonTokenEmpty ->
                  [ex |-> NoEx, it |-> it + 1, uses |-> sw \o <<Use("inc", it)>>]
             [] type \in {JsonTokenObjectStart, JsonTokenArrayStart} ->
                  [sub EXCEPT !.uses = sw \o @]
             [] OTHER ->
                  [ex |-> UnexpectedToken(tokens, it), it |-> it,
                   uses |-> sw \o <<Use("read", it)>>]

\* JsonReader::scan, all iterations of its loop: [ex, tokens]
RECURSIVE scan(_, _, _)
scan(text, pos, tokens) ==
  IF eos(text, pos) THEN [ex |-> NoEx, tokens |-> tokens]
  ELSE LET r == scanIteration(text, pos)
       IN  IF r.ex # NoEx THEN [ex |-> r.ex, tokens |-> tokens]
           ELSE scan(text, r.pos, Append(tokens, r.token))

\* JsonReader::read(text, value): [ex, it, value]
readInto(text, value) ==
  LET s == scan(text, 0, <<>>)
  IN  IF s.ex # NoEx THEN [ex |-> s.ex, it |-> 0, value |-> value]
      ELSE parseValue(s.tokens, 0, value)

\* JsonReader::read(text, value), value default-constructed
read(text) == readInto(text, JsonValue_new)

\* ------------------------------------------------------------------------
\* JsonWriter.  The writer is [_output, _depth].

JsonWriter_new == [_output |-> <<>>, _depth |-> 0]

emit(w, text) == [w EXCEPT !._output = @ \o text]

\* INT_MAX and INT_MIN of a 32-bit int
IntMaxDigits == <<"2", "1", "4", "7", "4", "8", "3", "6", "4", "7">>

IntMinDigits == <<"2", "1", "4", "7", "4", "8", "3", "6", "4", "8">>

IntMaxValue == [neg |-> FALSE, ip |-> IntMaxDigits, fp |-> <<>>]

IntMinValue == [neg |-> TRUE, ip |-> IntMinDigits, fp |-> <<>>]

\* x <= y for digit sequences of the same length
RECURSIVE DigitsLeq(_, _)
DigitsLeq(x, y) ==
  IF x = <<>> THEN TRUE
  ELSE IF DigitVal(Head(x)) # DigitVal(Head(y)) THEN DigitVal(Head(x)) < DigitVal(Head(y))
  ELSE DigitsLeq(Tail(x), Tail(y))

\* the double, truncated, is a value of int
InIntRange(d) ==
  \/ Len(d.ip) < Len(IntMaxDigits)
  \/ /\ Len(d.ip) = Len(IntMaxDigits)
     /\ DigitsLeq(d.ip, IF d.neg THEN IntMinDigits ELSE IntMaxDigits)

\* The conversion of a double to int is undefined when the truncated value
\* is no value of int; ub is what the build yields then.
VARIABLE ub

IntOutcomes == {IntMinValue, IntMaxValue}

\* JsonValue::getInt: static_cast<int>(_double)
getInt(value) ==
  IF InIntRange(value._double) THEN MkDouble(value._double.neg, value._double.ip, <<>>) ELSE ub

\* base::to_string of an int and of a double
to_string(d) ==
  (IF d.neg THEN <<"-">> ELSE <<>>) \o (IF d.ip = <<>> THEN <<"0">> ELSE d.ip)
    \o (IF d.fp = <<>> THEN <<>> ELSE <<".">> \o d.fp)

\* base::to_string of an int64_t and of a uint64_t
RECURSIVE NatToDigits(_)
NatToDigits(n) ==
  IF n < 10 THEN <<Digits[n + 1]>> ELSE NatToDigits(n \div 10) \o <<Digits[(n % 10) + 1]>>

to_string_integer(n) == IF n < 0 THEN <<"-">> \o NatToDigits(0 - n) ELSE NatToDigits(n)

\* base::escape_json_string
escape_char(c) ==
  CASE c = "\"" -> <<"\\", "\"">>
    [] c = "\\" -> <<"\\", "\\">>
    [] c = BS -> <<"\\", "b">>
    [] c = "\f" -> <<"\\", "f">>
    [] c = "\n" -> <<"\\", "n">>
    [] c = "\r" -> <<"\\", "r">>
    [] c = "\t" -> <<"\\", "t">>
    [] OTHER -> <<c>>

RECURSIVE escape_json_string(_)
escape_json_string(str) ==
  IF str = <<>> THEN <<>> ELSE escape_char(Head(str)) \o escape_json_string(Tail(str))

\* JsonWriter::write(const std::string &)
writeString(w, value) == emit(w, <<"\"">> \o escape_json_string(value) \o <<"\"">>)

RECURSIVE writeValue(_, _)
RECURSIVE writeMembers(_, _, _)
RECURSIVE writeElements(_, _, _)

\* the for loop of write(const JsonObject &), over the keys still to write
writeMembers(w, obj, keys) ==
  IF keys = <<>> THEN w
  ELSE LET w1 == emit(w, Tabs(w._depth))
           w2 == writeString(w1, Head(keys))
           w3 == emit(w2, <<" ", ":", " ">>)
           w4 == writeValue(w3, obj[Head(keys)])
           w5 == IF Len(keys) # 1 THEN emit(w4, <<",">>) ELSE w4
       IN  writeMembers(emit(w5, <<"\n">>), obj, Tail(keys))

\* JsonWriter::write(const JsonObject &)
writeObject(w, obj) ==
  LET w1 == [emit(w, <<"{">>) EXCEPT !._depth = @ + 1]
      w2 == IF DOMAIN obj # {} THEN emit(w1, <<"\n">>) ELSE w1
      w3 == writeMembers(w2, obj, SortedKeys(DOMAIN obj))
      w4 == [w3 EXCEPT !._depth = @ - 1]
  IN  emit(emit(w4, Tabs(w4._depth)), <<"}">>)

\* the for loop of write(const JsonArray &), from element i on
writeElements(w, array, i) ==
  IF i > Len(array) THEN w
  ELSE LET w1 == emit(w, Tabs(w._depth))
           w2 == writeValue(w1, array[i])
           w3 == IF i # Len(array) THEN emit(w2, <<",">>) ELSE w2
       IN  writeElements(emit(w3, <<"\n">>), array, i + 1)

\* writes the elements at the depth of the array itself
writeArrayFlat(w, array) ==
  LET w2 == IF array # <<>> THEN emit(emit(w, <<"[">>), <<"\n">>) ELSE emit(w, <<"[">>)
      w3 == writeElements(w2, array, 1)
      w4 == [w3 EXCEPT !._depth = @ - 1]
  IN  emit(emit(w4, Tabs(w4._depth)), <<"]">>)

\* JsonWriter::write(const JsonArray &)
writeArray(w, array) ==
  LET w1 == [emit(w, <<"[">>) EXCEPT !._depth = @ + 1]
      w2 == IF array # <<>> THEN emit(w1, <<"\n">>) ELSE w1
      w3 == writeElements(w2, array, 1)
      w4 == [w3 EXCEPT !._depth = @ - 1]
  IN  emit(emit(w4, Tabs(w4._depth)), <<"]">>)

\* JsonWriter::write(const JsonValue &)
writeValue(w, value) ==
  CASE value._type = VInt -> emit(w, to_string(getInt(value)))
    [] value._type = VBoolean ->
         emit(w, IF value._bool THEN <<"t", "r", "u", "e">> ELSE <<"f", "a", "l", "s", "e">>)
    [] value._type = VString -> writeString(w, value._string)
    [] value._type = VDouble -> emit(w, to_string(value._double))
    [] value._type = VInt64 -> emit(w, to_string_integer(value._integer64))
    [] value._type = VUint64 -> emit(w, to_string_integer(value._uint64))
    [] value._type = VObject -> writeObject(w, value._object)
    [] value._type = VArray -> writeArray(w, value._array)
    [] value._type = VEmpty -> emit(w, <<"n", "u", "l", "l">>)
    [] OTHER -> w

\* JsonWriter::write(std::string &text, const JsonValue &value)
JsonWriter_write(value) == writeValue(JsonWriter_new, value)._output

\* ------------------------------------------------------------------------
\* Values in storage.  A JsonValue that a caller holds lives at a location;
\* its _object is the std::map of its members, the list of the map's nodes
\* [first, second] in key order, and its _array the std::vector of its
\* elements; second and the elements are the locations of the JsonValues the
\* containers own.  A reference to a JsonValue is its location.

MaxLocs == 6

Locs == 1..MaxLocs

NoLoc == 0

\* the content of a location that holds no JsonValue
FreeCell == [JsonValue_new EXCEPT !._type = "free"]

\* a thrown std::exception: its class and the pieces of its what()
NoThrow == [class |-> "", msg |-> "", arg |-> <<>>]

out_of_range(msg, arg) == [class |-> "std::out_of_range", msg |-> msg, arg |-> arg]

bad_cast == [class |-> "std::bad_cast", msg |-> "std::bad_cast", arg |-> <<>>]

FreeLocs(heap) == {l \in Locs : heap[l] = FreeCell}

\* operator new: the lowest free location
NewLoc(heap) == CHOOSE l \in FreeLocs(heap) : \A m \in FreeLocs(heap) : l <= m

\* the locations a container of the value at loc owns directly
Children(heap, loc) ==
  {heap[loc]._object[i].second : i \in 1..Len(heap[loc]._object)}
    \cup {heap[loc]._array[i] : i \in 1..Len(heap[loc]._array)}

\* loc and everything owned through it
RECURSIVE Owned(_, _)
Owned(heap, loc) == {loc} \cup UNION {Owned(heap, c) : c \in Children(heap, loc)}

\* the value at loc as a tree
RECURSIVE Load(_, _)
Load(heap, loc) ==
  LET cell == heap[loc]
      nodes == cell._object
  IN  [cell EXCEPT
         !._object = [k \in {nodes[i].first : i \in 1..Len(nodes)} |->
                        Load(heap, nodes[CHOOSE i \in 1..Len(nodes) : nodes[i].first = k].second)],
         !._array = [i \in 1..Len(cell._array) |-> Load(heap, cell._array[i])]]

\* the number of JsonValues in the tree
RECURSIVE NodeCount(_)
RECURSIVE NodeCountAll(_, _)
NodeCountAll(f, keys) ==
  IF keys = {} THEN 0
  ELSE LET k == CHOOSE x \in keys : TRUE IN NodeCount(f[k]) + NodeCountAll(f, keys \ {k})

NodeCount(tree) ==
  1 + NodeCountAll(tree._object, DOMAIN tree._object) + NodeCountAll(tree._array, DOMAIN tree._array)

\* the copy of a tree into storage at loc: every member and every element is
\* copy-constructed into a node of its own
RECURSIVE Store(_, _, _)
RECURSIVE StoreMembers(_, _, _, _)
RECURSIVE StoreElements(_, _, _, _)

StoreMembers(heap, obj, keys, nodes) ==
  IF keys = <<>> THEN [heap |-> heap, data |-> nodes]
  ELSE LET l == NewLoc(heap)
       IN  StoreMembers(Store(heap, l, obj[Head(keys)]), obj, Tail(keys),
                        Append(nodes, [first |-> Head(keys), second |-> l]))

StoreElements(heap, array, i, elems) ==
  IF i > Len(array) THEN [heap |-> heap, data |-> elems]
  ELSE LET l == NewLoc(heap)
       IN  StoreElements(Store(heap, l, array[i]), array, i + 1, Append(elems, l))

Store(heap, loc, tree) ==
  LET h0 == [heap EXCEPT ![loc] = [tree EXCEPT !._object = <<>>, !._array = <<>>]]
      r1 == StoreMembers(h0, tree._object, SortedKeys(DOMAIN tree._object), <<>>)
      r2 == StoreElements(r1.heap, tree._array, 1, <<>>)
  IN  [r2.heap EXCEPT ![loc] = [tree EXCEPT !._object = r1.data, !._array = r2.data]]

\* the destructors: the locations in ls and all they own become free
Destroy(heap, ls) ==
  LET dead == UNION {Owned(heap, l) : l \in ls}
  IN  [l \in Locs |-> IF l \in dead THEN FreeCell ELSE heap[l]]

\* ------------------------------------------------------------------------
\* std::map and std::vector, on the node list and the element list

\* find: the index of the node of key, 0 for end()
map_find(nodes, key) ==
  IF \E i \in 1..Len(nodes) : nodes[i].first = key
  THEN CHOOSE i \in 1..Len(nodes) : nodes[i].first = key
  ELSE 0

\* lower_bound: the index of the first node whose key is not less than key
lower_bound(nodes, key) ==
  IF \E i \in 1..Len(nodes) : ~StrLess(nodes[i].first, key)
  THEN CHOOSE i \in 1..Len(nodes) :
         /\ ~StrLess(nodes[i].first, key)
         /\ \A j \in 1..(i - 1) : StrLess(nodes[j].first, key)
  ELSE Len(nodes) + 1

InsertBefore(s, i, x) == SubSeq(s, 1, i - 1) \o <<x>> \o SubSeq(s, i, Len(s))

RemoveRange(s, i, j) == SubSeq(s, 1, i - 1) \o SubSeq(s, j, Len(s))

\* always adds a node, also when the key is there already
map_indexAlwaysAdds(heap, this, key) ==
  LET nodes == heap[this]._object
      i == lower_bound(nodes, key)
      l == NewLoc(heap)
  IN  [heap |-> [heap EXCEPT ![l] = JsonValue_new,
                             ![this]._object = InsertBefore(nodes, i, [first |-> key, second |-> l])],
       ref |-> l]

\* _data[key]: a reference to the value of key, which is added with a
\* default-constructed JsonValue when it is absent.  [heap, ref]
map_index(heap, this, key) ==
  LET nodes == heap[this]._object
      i == lower_bound(nodes, key)
      l == NewLoc(heap)
  IN  IF i <= Len(nodes) /\ ~StrLess(key, nodes[i].first)
      THEN [heap |-> heap, ref |-> nodes[i].second]
      ELSE [heap |-> [heap EXCEPT ![l] = JsonValue_new,
                                  ![this]._object =
                                    InsertBefore(nodes, i, [first |-> key, second |-> l])],
            ref |-> l]

\* _data.at(pos) of the vector.  [err, ref]
vector_at(data, pos) ==
  IF pos >= Len(data)
  THEN [err |-> out_of_range("vector::_M_range_check", NatToDigits(pos)), ref |-> NoLoc]
  ELSE [err |-> NoThrow, ref |-> data[pos + 1]]

\* ------------------------------------------------------------------------
\* The members of JsonValue, JsonObject and JsonArray on a value in storage.
\* this is the location of the JsonValue, or of the JsonValue whose _object
\* or _array is the JsonObject or the JsonArray.

\* copies the fields of rhs and shares the values its containers own
JsonValue_copyShared(heap, this, rhs) == [heap EXCEPT ![this] = heap[rhs]]

\* JsonValue::JsonValue(const JsonValue &rhs), constructed at this
JsonValue_copy(heap, this, rhs) == Store(heap, this, Load(heap, rhs))

\* JsonValue::operator= from the value rhs
JsonValue_assignValue(heap, this, rhs) ==
  Store(Destroy(heap, Children(heap, this)), this, rhs)

\* JsonValue::operator=(const JsonValue &rhs)
JsonValue_assign(heap, this, rhs) == JsonValue_assignValue(heap, this, Load(heap, rhs))

\* keeps the members in the order of the calls of insert
storedInsertAppend(heap, this, key, value) ==
  LET nodes == heap[this]._object
      l == NewLoc(heap)
  IN  IF map_find(nodes, key) # 0
      THEN JsonValue_assignValue(heap, nodes[map_find(nodes, key)].second, value)
      ELSE JsonValue_assignValue(
             [heap EXCEPT ![l] = JsonValue_new,
                          ![this]._object = Append(nodes, [first |-> key, second |-> l])],
             l, value)

\* JsonObject::insert: _data[key] = value
storedInsert(heap, this, key, value) ==
  LET r == map_index(heap, this, key)
  IN  JsonValue_assignValue(r.heap, r.ref, value)

\* JsonObject::operator[]: [heap, err, ref]
JsonObject_index(heap, this, name) ==
  LET r == map_index(heap, this, name)
  IN  [heap |-> r.heap, err |-> NoThrow, ref |-> r.ref]

\* goes to _data[key] without the test of count(key)
JsonObject_getUnchecked(heap, this, key) == JsonObject_index(heap, this, key)

\* JsonObject::get: [heap, err, ref]
JsonObject_get(heap, this, key) ==
  IF map_find(heap[this]._object, key) = 0
  THEN [heap |-> heap, err |-> out_of_range("no element '%s' found in caontainer", key),
        ref |-> NoLoc]
  ELSE JsonObject_index(heap, this, key)

\* JsonObject::erase(Iterator it), it the iterator of the i-th node
JsonObject_erase(heap, this, i) ==
  LET nodes == heap[this]._object
  IN  [Destroy(heap, {nodes[i].second}) EXCEPT ![this]._object = RemoveRange(nodes, i, i + 1)]

\* JsonObject::clear
JsonObject_clear(heap, this) ==
  LET nodes == heap[this]._object
  IN  [Destroy(heap, {nodes[i].second : i \in 1..Len(nodes)}) EXCEPT ![this]._object = <<>>]

\* returns _data[pos] when pos is not beyond size()
JsonArray_atUnchecked(heap, this, pos) ==
  LET data == heap[this]._array
  IN  IF pos > Len(data)
      THEN [heap |-> heap, err |-> out_of_range("Index '%lu' is out of range.", NatToDigits(pos)),
            ref |-> NoLoc]
      ELSE [heap |-> heap, err |-> NoThrow,
            ref |-> IF pos < Len(data) THEN data[pos + 1] ELSE NoLoc]

\* JsonArray::at: [heap, err, ref]
JsonArray_at(heap, this, pos) ==
  LET data == heap[this]._array
  IN  IF pos > Len(data)
      THEN [heap |-> heap, err |-> out_of_range("Index '%lu' is out of range.", NatToDigits(pos)),
            ref |-> NoLoc]
      ELSE [heap |-> heap, err |-> vector_at(data, pos).err, ref |-> vector_at(data, pos).ref]

\* JsonArray::pushBack: _data.push_back(value)
storedPushBack(heap, this, value) ==
  LET l == NewLoc(heap)
  IN  [Store(heap, l, value) EXCEPT ![this]._array = Append(@, l)]

\* JsonArray::erase(Iterator pos), pos the iterator of element i (0-based)
JsonArray_erase(heap, this, i) ==
  LET data == heap[this]._array
  IN  [Destroy(heap, {data[i + 1]}) EXCEPT ![this]._array = RemoveRange(data, i + 1, i + 2)]

\* JsonArray::clear
JsonArray_clear(heap, this) ==
  LET data == heap[this]._array
  IN  [Destroy(heap, {data[i] : i \in 1..Len(data)}) EXCEPT ![this]._array = <<>>]

\* JsonValue::setObject: _object = val
storedSetObject(heap, this, val) ==
  LET h0 == JsonObject_clear(heap, this)
      r == StoreMembers(h0, val, SortedKeys(DOMAIN val), <<>>)
  IN  [r.heap EXCEPT ![this]._object = r.data]

\* JsonValue::setArray: _array = val
storedSetArray(heap, this, val) ==
  LET h0 == JsonArray_clear(heap, this)
      r == StoreElements(h0, val, 1, <<>>)
  IN  [r.heap EXCEPT ![this]._array = r.data]

\* what the caller catches when read throws ex
thrown(ex) ==
  IF ex = NoEx THEN NoThrow ELSE [class |-> "ParserException", msg |-> ex.msg, arg |-> ex.arg]

\* JsonReader::read(text, value) on the value at this: [heap, err]
storedRead(heap, this, text) ==
  LET r == readInto(text, Load(heap, this))
  IN  [heap |-> JsonValue_assignValue(heap, this, r.value), err |-> thrown(r.ex)]

\* the conversion operators of JsonValue, by the type they convert to
Targets == {"JsonObject", "JsonArray", "int", "double", "int64_t", "uint64_t", "bool", "string"}

\* the tag each conversion operator compares getType() with
TargetType(target) ==
  CASE target = "JsonObject" -> VObject
    [] target = "JsonArray" -> VArray
    [] target = "int" -> VInt
    [] target = "double" -> VDouble
    [] target = "int64_t" -> VInt64
    [] target = "uint64_t" -> VUint64
    [] target = "bool" -> VBoolean
    [] target = "string" -> VString

\* what a call returns: its type, and the field of that type
NoRet ==
  [type |-> "void", ref |-> NoLoc, number |-> Zero, integer |-> 0, bool |-> FALSE,
   string |-> <<>>, object |-> <<>>, array |-> <<>>]

\* a reference to the JsonValue at l
Ref(l) == [NoRet EXCEPT !.type = "JsonValue &", !.ref = l]

\* getObject, getArray, getInt, getDouble, getInt64, getUint64, getBool, getString
getter(value, target) ==
  CASE target = "JsonObject" -> [NoRet EXCEPT !.type = target, !.object = value._object]
    [] target = "JsonArray" -> [NoRet EXCEPT !.type = target, !.array = value._array]
    [] target = "int" -> [NoRet EXCEPT !.type = target, !.number = getInt(value)]
    [] target = "double" -> [NoRet EXCEPT !.type = target, !.number = value._double]
    [] target = "int64_t" -> [NoRet EXCEPT !.type = target, !.integer = value._integer64]
    [] target = "uint64_t" -> [NoRet EXCEPT !.type = target, !.integer = value._uint64]
    [] target = "bool" -> [NoRet EXCEPT !.type = target, !.bool = value._bool]
    [] target = "string" -> [NoRet EXCEPT !.type = target, !.string = value._string]

\* returns the getter's result whatever the tag is
conversionUnchecked(value, target) == [err |-> NoThrow, ret |-> getter(value, target)]

\* JsonValue::operator T() const: [err, ret]
conversion(value, target) ==
  IF value._type # TargetType(target)
  THEN [err |-> bad_cast, ret |-> NoRet]
  ELSE [err |-> NoThrow, ret |-> getter(value, target)]

\* ------------------------------------------------------------------------
\* The inputs: value trees built with the constructors, and texts.

MaxNodes == 3

MaxLexemes == 3

MaxNumLen == 3

MaxMemberNodes == 1

MaxExtraTokens == 2

Keys == {<<"a">>, <<"b">>}

Three == MkDouble(FALSE, <<"3">>, <<>>)

ThreeAndHalf == MkDouble(FALSE, <<"3">>, <<"5">>)

Leaves ==
  {JsonValue_new, JsonValue_bool(TRUE), JsonValue_int(5), JsonValue_double(ThreeAndHalf),
   JsonValue_double(Three), JsonValue_string(<<"a">>)}

\* an array built by pushBack of the values of f, in order
RECURSIVE ArrayOf(_)
ArrayOf(f) ==
  IF f = <<>> THEN JsonArray_new ELSE pushBack(ArrayOf(SubSeq(f, 1, Len(f) - 1)), f[Len(f)])

\* an object built by insert of the values of f under the keys ks, in order
RECURSIVE ObjectOf(_, _)
ObjectOf(ks, f) ==
  IF f = <<>> THEN JsonObject_new
  ELSE JsonObject_insert(ObjectOf(SubSeq(ks, 1, Len(f) - 1), SubSeq(f, 1, Len(f) - 1)),
                         ks[Len(f)], f[Len(f)])

RECURSIVE TreesOfSize(_)
RECURSIVE Forests(_)

\* the sequences of trees that have n nodes together
Forests(n) ==
  IF n = 0 THEN {<<>>}
  ELSE UNION {{<<t>> \o f : t \in TreesOfSize(m), f \in Forests(n - m)} : m \in 1..n}

\* the trees of exactly n nodes
TreesOfSize(n) ==
  IF n = 1 THEN Leaves \cup {JsonValue_array(JsonArray_new), JsonValue_object(JsonObject_new)}
  ELSE {JsonValue_array(ArrayOf(f)) : f \in Forests(n - 1)}
       \cup UNION {{JsonValue_object(ObjectOf(SortedKeys(K), f)) :
                      f \in {g \in Forests(n - 1) : Len(g) = Cardinality(K)}} :
                   K \in SUBSET Keys}

Trees == UNION {TreesOfSize(n) : n \in 1..MaxNodes}

\* the lexemes of a compact text of the tree v
RECURSIVE LexSeq(_)
RECURSIVE LexMembers(_, _)
RECURSIVE LexElements(_, _)

LexMembers(obj, keys) ==
  IF keys = <<>> THEN <<>>
  ELSE <<<<"\"">> \o Head(keys) \o <<"\"">>, <<":">>>> \o LexSeq(obj[Head(keys)])
       \o (IF Len(keys) # 1 THEN <<<<",">>>> ELSE <<>>) \o LexMembers(obj, Tail(keys))

LexElements(array, i) ==
  IF i > Len(array) THEN <<>>
  ELSE LexSeq(array[i]) \o (IF i # Len(array) THEN <<<<",">>>> ELSE <<>>)
       \o LexElements(array, i + 1)

LexSeq(v) ==
  CASE v._type = VEmpty -> <<<<"n", "u", "l", "l">>>>
    [] v._type = VBoolean -> <<<<"t", "r", "u", "e">>>>
    [] v._type = VInt -> <<<<"1">>>>
    [] v._type = VDouble -> <<to_string(v._double) \o (IF v._double.fp = <<>> THEN <<".", "0">> ELSE <<>>)>>
    [] v._type = VString -> <<<<"\"">> \o v._string \o <<"\"">>>>
    [] v._type = VObject ->
         <<<<"{">>>> \o LexMembers(v._object, SortedKeys(DOMAIN v._object)) \o <<<<"}">>>>
    [] v._type = VArray -> <<<<"[">>>> \o LexElements(v._array, 1) \o <<<<"]">>>>

Compact(v) == Concat(LexSeq(v))

Containers == {v \in Trees : v._type \in {VObject, VArray}}

WellFormedTexts == {Compact(v) : v \in Trees}

TrailingSpace == {<<>>, <<" ">>}

\* a well-formed container text cut after some but not all of its lexemes
UnterminatedTexts ==
  UNION {{Concat(SubSeq(LexSeq(v), 1, k)) \o ws : k \in 1..(Len(LexSeq(v)) - 1), ws \in TrailingSpace} :
         v \in Containers}

MemberTexts == UNION {{Compact(v) : v \in TreesOfSize(n)} : n \in 1..MaxMemberNodes}

Quoted(k) == <<"\"">> \o k \o <<"\"">>

\* one object in which the key k occurs twice, with values v1 and v2
DupText(k, v1, v2, between) ==
  <<"{">> \o Quoted(k) \o <<":">> \o v1 \o <<",">> \o between \o Quoted(k) \o <<":">> \o v2 \o <<"}">>

Between == {<<>>, <<"\"", "c", "\"", ":", "1", ",">>}

DupTexts == {DupText(k, v1, v2, b) : k \in Keys, v1 \in MemberTexts, v2 \in MemberTexts, b \in Between}

\* the key k in two different objects, nested or sibling
SameKeyTexts ==
  UNION {{<<"{">> \o Quoted(k) \o <<":", "{">> \o Quoted(k) \o <<":">> \o v1 \o <<"}", "}">>,
          <<"[", "{">> \o Quoted(k) \o <<":">> \o v1 \o <<"}", ",", "{">> \o Quoted(k) \o <<":">>
            \o v2 \o <<"}", "]">>,
          <<"{", "\"", "c", "\"", ":", "{">> \o Quoted(k) \o <<":">> \o v1 \o <<"}", ",">>
            \o Quoted(k) \o <<":", "{">> \o Quoted(k) \o <<":">> \o v2 \o <<"}", "}">>} :
         k \in Keys, v1 \in MemberTexts, v2 \in MemberTexts}

\* a text that has one of , ] : } where the grammar requires a value
ValueContexts ==
  {<<"{", "\"", "a", "\"", ":">>,
   <<"{", "\"", "a", "\"", ":", "1", ",", "\"", "b", "\"", ":">>,
   <<"{", "\"", "a", "\"", ":", "{", "\"", "b", "\"", ":">>,
   <<"[", "{", "\"", "a", "\"", ":">>,
   <<"[", "1", ",">>,
   <<"{", "\"", "a", "\"", ":", "[", "1", ",">>}

NotAValue == {"}", ",", "]", ":"}

Rests == {<<>>, <<"}">>, <<"1", "}">>, <<" ", "]">>}

MissingValueTexts == {c \o <<x>> \o r : c \in ValueContexts, x \in NotAValue, r \in Rests}

NumAlphabet == {"0", "3", "5", ".", "-"}

RECURSIVE SeqsUpTo(_, _)
SeqsUpTo(S, n) ==
  IF n = 0 THEN {<<>>} ELSE {<<>>} \cup {<<x>> \o s : x \in S, s \in SeqsUpTo(S, n - 1)}

NumTexts == SeqsUpTo(NumAlphabet, MaxNumLen) \ {<<>>}

Lexemes ==
  {<<"{">>, <<"}">>, <<"[">>, <<"]">>, <<",">>, <<":">>, <<"\"", "a", "\"">>, <<"1">>,
   <<"t", "r", "u", "e">>, <<"t", "r", "u">>, <<"f", "a", "l", "s", "e">>,
   <<"n", "u", "l", "l">>, <<" ">>, <<NUL>>}

LexTexts == {Concat(ls) : ls \in SeqsUpTo(Lexemes, MaxLexemes)}

\* a complete value, then more tokens
FirstValues == UNION {TreesOfSize(n) : n \in 1..(MaxMemberNodes + 1)}

Trailers == {<<" ", "2">>, <<"]">>, <<" ", "}">>, <<",", "1">>}

TrailingTexts == {Compact(fv) \o t : fv \in FirstValues, t \in Trailers}

\* a string with one escape sequence in it
Escapable == {"/", "\"", "\\", "b", "f", "n", "r", "t"}

EscapeChars == Escapable \cup {"u", "a", "0", " "}

Affixes == {<<>>, <<"a">>}

Escaped(pre, c, post) == pre \o <<"\\", c>> \o post

EscapeTexts ==
  {Quoted(Escaped(pre, c, post)) : pre \in Affixes, c \in EscapeChars, post \in Affixes}
    \cup {<<"\"">> \o Escaped(pre, "\"", <<>>) : pre \in Affixes}

\* arrays of one element and more
One == JsonValue_int(1)

NestedFirst ==
  {JsonValue_array(ArrayOf(<<JsonValue_array(ArrayOf(<<One>>))>>)),
   JsonValue_array(ArrayOf(<<JsonValue_array(ArrayOf(<<One>>)), One>>)),
   JsonValue_array(ArrayOf(<<One, JsonValue_array(ArrayOf(<<One>>))>>))}

\* no {} and no [] in the text
NoEmptyContainer(text) ==
  \A i \in 1..(Len(text) - 1) :
    ~(text[i] = "[" /\ text[i + 1] = "]") /\ ~(text[i] = "{" /\ text[i + 1] = "}")

ArrayTrees ==
  {t \in Trees : t._type = VArray /\ Len(t._array) >= 1 /\ NoEmptyContainer(Compact(t))}
    \cup NestedFirst

ArrayTexts == {Compact(t) : t \in ArrayTrees}

\* spellings of numbers, each with the number it denotes
NumberSpellings ==
  {[text |-> <<"3">>, number |-> Three],
   [text |-> <<"3", ".", "0">>, number |-> Three],
   [text |-> <<"3", "e", "0">>, number |-> Three],
   [text |-> <<"3", "E", "0">>, number |-> Three],
   [text |-> <<"0", ".", "3", "e", "1">>, number |-> Three],
   [text |-> <<"3", "0", "e", "-", "1">>, number |-> Three],
   [text |-> <<"3", ".", "5">>, number |-> ThreeAndHalf],
   [text |-> <<"3", "5", "e", "-", "1">>, number |-> ThreeAndHalf],
   [text |-> <<"3", ".", "5", "e", "1">>, number |-> MkDouble(FALSE, <<"3", "5">>, <<>>)],
   [text |-> <<"3", "e", "-", "1">>, number |-> MkDouble(FALSE, <<>>, <<"3">>)],
   [text |-> <<"-", "3", ".", "0">>, number |-> MkDouble(TRUE, <<"3">>, <<>>)]}

PairText(s, t) == <<"[">> \o s \o <<",">> \o t \o <<"]">>

SpelledTexts ==
  {s.text : s \in NumberSpellings}
    \cup {PairText(s.text, t.text) : s \in NumberSpellings, t \in NumberSpellings}

\* numbers at and beyond the ends of the range of a 32-bit int
BigNumberTexts ==
  {IntMaxDigits, IntMinDigits, <<"-">> \o IntMinDigits,
   <<"-", "2", "1", "4", "7", "4", "8", "3", "6", "4", "9">>,
   <<"3", "0", "0", "0", "0", "0", "0", "0", "0", "0">>, <<"3", "e", "9">>,
   <<"[", "3", "e", "1", "0", "]">>}

\* an opening quote and up to MaxStringLen characters, at the start of the
\* text and after other tokens
MaxStringLen == 3

StringAlphabet == {"a", "\\", "\"", "q"}

StringContexts == {<<>>, <<"[", "1", ",", " ">>}

OpenedTexts ==
  {c \o <<"\"">> \o body : c \in StringContexts, body \in SeqsUpTo(StringAlphabet, MaxStringLen)}

\* a text, with or without an error of grammar, that ends in a character no
\* token starts with
BeforeLexError ==
  {<<"{", "\"", "a", "\"", ":", "}">>, <<"]">>, <<"[", "1", ",", "]">>,
   <<"{", "\"", "a", "\"", "1", "}">>, <<"1">>, <<"{", "\"", "a", "\"", ":", "1", "}">>}

LexErrors == {<<"@">>, <<" ", "@">>}

LateLexTexts == {g \o e : g \in BeforeLexError, e \in LexErrors}

Texts ==
  LexTexts \cup NumTexts \cup WellFormedTexts \cup UnterminatedTexts \cup DupTexts
    \cup SameKeyTexts \cup MissingValueTexts \cup TrailingTexts \cup EscapeTexts \cup ArrayTexts
    \cup SpelledTexts \cup LateLexTexts \cup OpenedTexts \cup BigNumberTexts

\* ------------------------------------------------------------------------
\* The state: a caller that either reads a text into a fresh JsonValue, or
\* writes a tree, reads the text back and writes the result again.

VARIABLES src, v, _jsonText, _actualPos, _tokens, _tokenIterator, value, ex, output, pc

\* the state of the caller of the value model: the storage, the locations of
\* its values a and b, what its last call threw and returned, and the number
\* of calls it has made
VARIABLES heap, a, b, err, ret, calls

readerVars == <<src, v, _jsonText, _actualPos, _tokens, _tokenIterator, value, ex, output, pc, ub>>

apiVars == <<heap, a, b, err, ret, calls>>

vars == <<readerVars, apiVars>>

\* no value constructed, no call made
ApiIdle ==
  /\ heap = [l \in Locs |-> FreeCell]
  /\ a = NoLoc
  /\ b = NoLoc
  /\ err = NoThrow
  /\ ret = NoRet
  /\ calls = 0

\* no text read, no tree written; the callers of the value model convert no
\* double that is outside the range of int, so ub plays no part for them
ReaderIdle ==
  /\ src = "none" /\ v = JsonValue_new /\ _jsonText = <<>> /\ pc = "idle"
  /\ _actualPos = 0
  /\ _tokens = <<>>
  /\ _tokenIterator = 0
  /\ value = JsonValue_new
  /\ ex = NoEx
  /\ output = <<>>
  /\ ub = IntMinValue

Init ==
  /\ \/ src = "text" /\ _jsonText \in Texts /\ v = JsonValue_new /\ pc = "scan"
     \/ src = "tree" /\ v \in Trees /\ _jsonText = <<>> /\ pc = "write"
  /\ _actualPos = 0
  /\ _tokens = <<>>
  /\ _tokenIterator = 0
  /\ value = JsonValue_new
  /\ ex = NoEx
  /\ output = <<>>
  /\ ub \in IntOutcomes
  /\ ApiIdle

\* JsonWriter::write(text, v), then JsonReader reader(text)
Write ==
  /\ pc = "write"
  /\ _jsonText' = JsonWriter_write(v)
  /\ pc' = "scan"
  /\ UNCHANGED <<src, v, _actualPos, _tokens, _tokenIterator, value, ex, output, ub, apiVars>>

\* one iteration of the loop of JsonReader::scan
ScanStep ==
  /\ pc = "scan"
  /\ ~eos(_jsonText, _actualPos)
  /\ Len(_tokens) < Len(_jsonText) + MaxExtraTokens
  /\ LET r == scanIteration(_jsonText, _actualPos)
     IN  /\ _actualPos' = r.pos
         /\ ex' = r.ex
         /\ IF r.ex # NoEx
            THEN pc' = "failed" /\ UNCHANGED _tokens
            ELSE pc' = "scan" /\ _tokens' = Append(_tokens, r.token)
  /\ UNCHANGED <<src, v, _jsonText, _tokenIterator, value, output, ub, apiVars>>

\* hands the tokens to the parser as soon as there is one
ScanEndEarly ==
  /\ pc = "scan"
  /\ _tokens # <<>>
  /\ _tokenIterator' = 0
  /\ pc' = "parse"
  /\ UNCHANGED <<src, v, _jsonText, _actualPos, _tokens, value, ex, output, ub, apiVars>>

\* the end of JsonReader::scan
ScanEnd ==
  /\ pc = "scan"
  /\ eos(_jsonText, _actualPos)
  /\ _tokenIterator' = 0
  /\ pc' = "parse"
  /\ UNCHANGED <<src, v, _jsonText, _actualPos, _tokens, value, ex, output, ub, apiVars>>

\* reader.parse(value)
Parse ==
  /\ pc = "parse"
  /\ LET r == parseValue(_tokens, _tokenIterator, value)
     IN  /\ value' = r.value
         /\ ex' = r.ex
         /\ _tokenIterator' = r.it
         /\ pc' = IF r.ex = NoEx THEN "done" ELSE "failed"
  /\ UNCHANGED <<src, v, _jsonText, _actualPos, _tokens, output, ub, apiVars>>

\* JsonWriter::write(output, value) on the value that was read back
Rewrite ==
  /\ pc = "done"
  /\ src = "tree"
  /\ output' = JsonWriter_write(value)
  /\ pc' = "rewritten"
  /\ UNCHANGED <<src, v, _jsonText, _actualPos, _tokens, _tokenIterator, value, ex, ub, apiVars>>

Next == Write \/ ScanStep \/ ScanEnd \/ Parse \/ Rewrite

Spec == Init /\ [][Next]_vars

\* ------------------------------------------------------------------------
\* A caller of the val model: it constructs the JsonValue a, may copy it
\* to the JsonValue b, and calls the members of the values, objects and
\* arrays it can reach from a and b.

\* the arguments of the calls
Five == MkDouble(FALSE, <<"5">>, <<>>)

Uninitialised == {0, 7}

MaxCalls == 4

OneElement == pushBack(JsonArray_new, JsonValue_bool(TRUE))

ThreeElements == pushBack(pushBack(OneElement, JsonValue_new), JsonValue_bool(TRUE))

ObjectArgs ==
  {JsonObject_new, JsonObject_insert(JsonObject_new, <<"a">>, JsonValue_bool(TRUE)),
   JsonObject_insert(JsonObject_new, <<"a">>, JsonValue_array(OneElement))}

ArrayArgs == {JsonArray_new, OneElement, ThreeElements}

\* the texts the caller reads
ApiTexts ==
  {<<"[", "t", "r", "u", "e", "]">>,
   <<"{", "\"", "a", "\"", ":", "t", "r", "u", "e", "}">>,
   <<"{", "\"", "b", "\"", ":", "1", ",", "\"", "a", "\"", ":", "t", "r", "u", "e", "}">>,
   <<"{", "\"", "a", "\"", ":", "t", "r", "u", "e", ",", "\"", "b", "\"", ":", "1", "}">>,
   <<"1">>,
   <<"[", "1">>}

ValueArgs == {JsonValue_bool(TRUE), JsonValue_new}

TypeArgs == {VObject, VArray}

\* the caller has calls left
MayCall == calls < MaxCalls

\* this is a or b or a value they own, which the caller reaches from a or b
\* through get, operator[] and at
Reaches(this) == MayCall /\ heap[this] # FreeCell

Room(n) == Cardinality(FreeLocs(heap)) >= n

ApiInit == ApiIdle /\ ReaderIdle

\* one more call, which throws e or returns r
Returns(e, r) == calls' = calls + 1 /\ err' = e /\ ret' = r

\* JsonValue a(x)
Emplace(tree) ==
  /\ MayCall /\ a = NoLoc
  /\ Room(NodeCount(tree))
  /\ a' = NewLoc(heap)
  /\ heap' = Store(heap, a', tree)
  /\ Returns(NoThrow, NoRet)
  /\ UNCHANGED <<b, readerVars>>

Construct ==
  \/ Emplace(JsonValue_new)
  \/ \E x \in BOOLEAN : Emplace(JsonValue_bool(x))
  \/ \E x \in {Five} : Emplace(JsonValue_int(x))
  \/ \E x \in {7} : Emplace(JsonValue_int64(x))
  \/ \E x \in {7} : Emplace(JsonValue_uint64(x))
  \/ \E x \in {ThreeAndHalf} : Emplace(JsonValue_double(x))
  \/ \E x \in {<<"a">>} : Emplace(JsonValue_string(x))
  \/ \E x \in {<<"a">>}, i \in Uninitialised, u \in Uninitialised : Emplace(JsonValue_stdstring(x, i, u))
  \/ \E x \in ObjectArgs : Emplace(JsonValue_object(x))
  \/ \E x \in ArrayArgs : Emplace(JsonValue_array(x))

\* JsonValue b(a)
CopyConstruct ==
  /\ MayCall /\ a # NoLoc /\ b = NoLoc
  /\ Room(Cardinality(Owned(heap, a)))
  /\ b' = NewLoc(heap)
  /\ heap' = JsonValue_copy(heap, b', a)
  /\ Returns(NoThrow, NoRet)
  /\ UNCHANGED <<a, readerVars>>

\* lhs = rhs, of a and b
Assign(lhs, rhs) ==
  /\ MayCall /\ a # NoLoc /\ b # NoLoc
  /\ {lhs, rhs} = {a, b}
  /\ Room(Cardinality(Owned(heap, rhs)))
  /\ heap' = JsonValue_assign(heap, lhs, rhs)
  /\ Returns(NoThrow, Ref(lhs))
  /\ UNCHANGED <<a, b, readerVars>>

SetType(this, type) ==
  /\ Reaches(this)
  /\ heap' = [heap EXCEPT ![this] = setType(@, type)]
  /\ Returns(NoThrow, NoRet)
  /\ UNCHANGED <<a, b, readerVars>>

SetBool(this, val) ==
  /\ Reaches(this)
  /\ heap' = [heap EXCEPT ![this] = setBool(@, val)]
  /\ Returns(NoThrow, NoRet)
  /\ UNCHANGED <<a, b, readerVars>>

\* this.getObject().insert(key, value)
Insert(this, key, val) ==
  /\ Reaches(this)
  /\ heap[this]._type = VObject
  /\ Room(NodeCount(val) + 1)
  /\ heap' = storedInsert(heap, this, key, val)
  /\ Returns(NoThrow, NoRet)
  /\ UNCHANGED <<a, b, readerVars>>

\* this.getObject()[name]
Index(this, name) ==
  /\ Reaches(this)
  /\ heap[this]._type = VObject
  /\ map_find(heap[this]._object, name) # 0 \/ Room(1)
  /\ LET r == JsonObject_index(heap, this, name)
     IN  heap' = r.heap /\ Returns(r.err, Ref(r.ref))
  /\ UNCHANGED <<a, b, readerVars>>

\* this.getObject().get(key)
Get(this, key) ==
  /\ Reaches(this)
  /\ heap[this]._type = VObject
  /\ LET r == JsonObject_get(heap, this, key)
     IN  heap' = r.heap /\ Returns(r.err, Ref(r.ref))
  /\ UNCHANGED <<a, b, readerVars>>

\* this.getObject().erase(this.getObject().find(key)), key present
EraseKey(this, key) ==
  /\ Reaches(this)
  /\ heap[this]._type = VObject
  /\ map_find(heap[this]._object, key) # 0
  /\ heap' = JsonObject_erase(heap, this, map_find(heap[this]._object, key))
  /\ Returns(NoThrow, NoRet)
  /\ UNCHANGED <<a, b, readerVars>>

\* this.getObject().clear()
ClearObject(this) ==
  /\ Reaches(this)
  /\ heap[this]._type = VObject
  /\ heap' = JsonObject_clear(heap, this)
  /\ Returns(NoThrow, NoRet)
  /\ UNCHANGED <<a, b, readerVars>>

\* this.getArray().pushBack(value)
PushBack(this, val) ==
  /\ Reaches(this)
  /\ heap[this]._type = VArray
  /\ Room(NodeCount(val))
  /\ heap' = storedPushBack(heap, this, val)
  /\ Returns(NoThrow, NoRet)
  /\ UNCHANGED <<a, b, readerVars>>

\* this.getArray().at(pos)
At(this, pos) ==
  /\ Reaches(this)
  /\ heap[this]._type = VArray
  /\ LET r == JsonArray_at(heap, this, pos)
     IN  heap' = r.heap /\ Returns(r.err, Ref(r.ref))
  /\ UNCHANGED <<a, b, readerVars>>

\* this.getArray().erase(this.getArray().begin() + i), i < size()
EraseAt(this, i) ==
  /\ Reaches(this)
  /\ heap[this]._type = VArray
  /\ i < Len(heap[this]._array)
  /\ heap' = JsonArray_erase(heap, this, i)
  /\ Returns(NoThrow, NoRet)
  /\ UNCHANGED <<a, b, readerVars>>

\* this.getArray().clear()
ClearArray(this) ==
  /\ Reaches(this)
  /\ heap[this]._type = VArray
  /\ heap' = JsonArray_clear(heap, this)
  /\ Returns(NoThrow, NoRet)
  /\ UNCHANGED <<a, b, readerVars>>

SetNumber(this, val) ==
  /\ Reaches(this)
  /\ heap' = [heap EXCEPT ![this] = setNumber(@, val)]
  /\ Returns(NoThrow, NoRet)
  /\ UNCHANGED <<a, b, readerVars>>

SetInt64(this, val) ==
  /\ Reaches(this)
  /\ heap' = [heap EXCEPT ![this] = setInt64(@, val)]
  /\ Returns(NoThrow, NoRet)
  /\ UNCHANGED <<a, b, readerVars>>

SetUint64(this, val) ==
  /\ Reaches(this)
  /\ heap' = [heap EXCEPT ![this] = setUint64(@, val)]
  /\ Returns(NoThrow, NoRet)
  /\ UNCHANGED <<a, b, readerVars>>

SetString(this, val) ==
  /\ Reaches(this)
  /\ heap' = [heap EXCEPT ![this] = setString(@, val)]
  /\ Returns(NoThrow, NoRet)
  /\ UNCHANGED <<a, b, readerVars>>

SetObject(this, val) ==
  /\ Reaches(this)
  /\ Cardinality(FreeLocs(JsonObject_clear(heap, this))) >= NodeCount(JsonValue_object(val)) - 1
  /\ heap' = storedSetObject(heap, this, val)
  /\ Returns(NoThrow, NoRet)
  /\ UNCHANGED <<a, b, readerVars>>

SetArray(this, val) ==
  /\ Reaches(this)
  /\ Cardinality(FreeLocs(JsonArray_clear(heap, this))) >= NodeCount(JsonValue_array(val)) - 1
  /\ heap' = storedSetArray(heap, this, val)
  /\ Returns(NoThrow, NoRet)
  /\ UNCHANGED <<a, b, readerVars>>

\* JsonReader::read(text, this)
ReadInto(this, text) ==
  /\ Reaches(this)
  /\ Cardinality(FreeLocs(heap)) + Cardinality(Owned(heap, this))
       >= NodeCount(readInto(text, Load(heap, this)).value)
  /\ LET r == storedRead(heap, this, text)
     IN  heap' = r.heap /\ Returns(r.err, NoRet)
  /\ UNCHANGED <<a, b, readerVars>>

\* JsonWriter::write(text, this), which returns text
WriteOut(this) ==
  /\ Reaches(this)
  /\ Returns(NoThrow, [NoRet EXCEPT !.type = "std::string",
                                    !.string = JsonWriter_write(Load(heap, this))])
  /\ UNCHANGED <<heap, a, b, readerVars>>

\* static_cast<T>(this)
Convert(this, target) ==
  /\ Reaches(this)
  /\ LET r == conversion(heap[this], target)
     IN  Returns(r.err, r.ret)
  /\ UNCHANGED <<heap, a, b, readerVars>>

ApiNext ==
  \/ Construct
  \/ CopyConstruct
  \/ \E lhs \in Locs, rhs \in Locs : Assign(lhs, rhs)
  \/ \E this \in Locs, type \in TypeArgs : SetType(this, type)
  \/ \E this \in Locs : SetBool(this, TRUE)
  \/ \E this \in Locs, key \in Keys, val \in ValueArgs : Insert(this, key, val)
  \/ \E this \in Locs, name \in Keys : Index(this, name)
  \/ \E this \in Locs, key \in Keys : Get(this, key)
  \/ \E this \in Locs, key \in Keys : EraseKey(this, key)
  \/ \E this \in Locs : ClearObject(this)
  \/ \E this \in Locs, val \in ValueArgs : PushBack(this, val)
  \/ \E this \in Locs, pos \in 0..MaxLocs : At(this, pos)
  \/ \E this \in Locs, i \in 0..MaxLocs : EraseAt(this, i)
  \/ \E this \in Locs : ClearArray(this)
  \/ \E this \in Locs, target \in Targets : Convert(this, target)

ApiSpec == ApiInit /\ [][ApiNext]_vars

\* ------------------------------------------------------------------------
\* A caller that constructs the JsonValue a, sets its fields, fills its
\* containers, reads texts into it and writes it.

OneMember == JsonObject_insert(JsonObject_new, <<"a">>, JsonValue_bool(TRUE))

\* what a holds to begin with
InitialContents ==
  {JsonValue_new, JsonValue_bool(TRUE), JsonValue_int64(7), JsonValue_string(<<"a">>),
   JsonValue_object(JsonObject_new), JsonValue_object(OneMember),
   JsonValue_object(JsonObject_insert(JsonObject_new, <<"b">>, JsonValue_bool(TRUE))),
   JsonValue_array(JsonArray_new), JsonValue_array(OneElement),
   JsonValue_array(pushBack(JsonArray_new, JsonValue_int64(7)))}

Tags == {VEmpty, VBoolean, VInt, VInt64, VUint64, VDouble, VString, VObject, VArray}

IoNext ==
  \/ \E tree \in InitialContents : Emplace(tree)
  \/ \E this \in {a} \cap Locs, type \in Tags : SetType(this, type)
  \/ \E this \in {a} \cap Locs : SetBool(this, TRUE)
  \/ \E this \in {a} \cap Locs : SetNumber(this, ThreeAndHalf)
  \/ \E this \in {a} \cap Locs : SetInt64(this, 7)
  \/ \E this \in {a} \cap Locs : SetUint64(this, 7)
  \/ \E this \in {a} \cap Locs : SetString(this, <<"b">>)
  \/ \E this \in {a} \cap Locs : SetObject(this, OneMember)
  \/ \E this \in {a} \cap Locs : SetArray(this, OneElement)
  \/ \E this \in {a} \cap Locs, key \in Keys, val \in ValueArgs : Insert(this, key, val)
  \/ \E this \in {a} \cap Locs, text \in ApiTexts : ReadInto(this, text)
  \/ \E this \in {a} \cap Locs : WriteOut(this)

IoSpec == ApiInit /\ [][IoNext]_vars

\* ------------------------------------------------------------------------
\* Properties

\* read has thrown
Failed == pc = "failed"

\* read has returned
Returned == pc \in {"done", "rewritten"}

Finished == Failed \/ Returned

EndOfData == {"Not compleated json data", "Unexpected json data end."}

\* C1: round trip: for every tree v built with the constructors (no special
\* characters, containers of any size, Int leaves from the int constructor),
\* read(write(v)) succeeds and yields a tree equal to v in tag and payload.
C1_RoundTrip ==
  (src = "tree" /\ Finished) => (Returned /\ value = v)

\* C2: idempotence: for every tree v without Int64/Uint64 leaves, write(v) is
\* accepted by read and write(read(write(v))) is the same text as write(v).
C2_Idempotent ==
  src = "tree" => (~Failed /\ (pc = "rewritten" => output = _jsonText))

\* C3: empty containers: reading {} yields an Object with 0 members, reading
\* [] an Array with 0 elements, and writing those values yields exactly {}
\* and [].
C3_EmptyContainers ==
  /\ (src = "text" /\ Finished /\ _jsonText = <<"{", "}">>)
       => (Returned /\ value._type = VObject /\ DOMAIN value._object = {})
  /\ (src = "text" /\ Finished /\ _jsonText = <<"[", "]">>)
       => (Returned /\ value._type = VArray /\ Len(value._array) = 0)
  /\ (src = "tree" /\ pc = "scan" /\ v = JsonValue_object(JsonObject_new))
       => _jsonText = <<"{", "}">>
  /\ (src = "tree" /\ pc = "scan" /\ v = JsonValue_array(JsonArray_new))
       => _jsonText = <<"[", "]">>

\* C4: duplicate-key rejection: an object text in which one key occurs twice
\* among the members of one object fails with "Duplicate member: " and that
\* key, whatever the two values are; the same key in two different objects
\* is not reported as a duplicate.
C4_DuplicateKeyRejected ==
  (src = "text" /\ Finished) =>
    /\ \A k \in Keys, v1 \in MemberTexts, v2 \in MemberTexts, bt \in Between :
         _jsonText = DupText(k, v1, v2, bt)
           => (Failed /\ ex = ParserException("Duplicate member: ", k))
    /\ _jsonText \in SameKeyTexts => ex.msg # "Duplicate member: "

\* C5: boolean literal validation: the tokenizer yields a Boolean token only
\* for the texts true and false; reading the text tru fails.
C5_BooleanLiteralValidated ==
  /\ \A i \in 1..Len(_tokens) :
       _tokens[i].type = JsonTokenBoolean
         => _tokens[i].value \in {<<"t", "r", "u", "e">>, <<"f", "a", "l", "s", "e">>}
  /\ (Finished /\ _jsonText = <<"t", "r", "u">>) => Failed

\* the result of reading a number text
ReadsAs(text, type, number) ==
  (src = "text" /\ Finished /\ _jsonText = text)
    => (Returned /\ value._type = type /\ value._double = number)

\* C6 as stated: reading 3 yields Int 3, reading 3.0 yields Double 3.0,
\* reading 3.5 yields Double 3.5.
C6_NumericTagging ==
  /\ ReadsAs(<<"3">>, VInt, Three)
  /\ ReadsAs(<<"3", ".", "0">>, VDouble, Three)
  /\ ReadsAs(<<"3", ".", "5">>, VDouble, ThreeAndHalf)

\* C6 as amended: reading 3 yields Int 3, reading 3.0 yields Int with the
\* value 3.0, reading 3.5 yields Double 3.5.
C6_NumericTaggingByValue ==
  /\ ReadsAs(<<"3">>, VInt, Three)
  /\ ReadsAs(<<"3", ".", "0">>, VInt, Three)
  /\ ReadsAs(<<"3", ".", "5">>, VDouble, ThreeAndHalf)

C6_Witness ==
  src = "text" /\ pc = "done" /\ _jsonText = <<"3", ".", "0">> /\ value._type = VInt

\* C7: fail-fast with no partial results: whenever read fails, the caller's
\* value is as it was before the call (a default-constructed JsonValue).
C7_NoPartialResults ==
  Failed => value = JsonValue_new

\* C8: tokenizer termination: every iteration of the loop of scan that does
\* not fail consumes at least one character.
C8_ScanConsumes ==
  [][(ScanStep /\ pc' = "scan") => _actualPos' > _actualPos]_vars

\* C9: unterminated input: a text that ends, possibly after trailing
\* whitespace, before the enclosing array or object is closed fails with an
\* end-of-data error.
C9_UnterminatedIsEndOfData ==
  (src = "text" /\ Finished /\ _jsonText \in UnterminatedTexts)
    => (Failed /\ ex.msg \in EndOfData)

\* C10: missing value: a text in which } , ] or : stands where a value is
\* required fails with "Unexpected token: " and that token.
C10_MissingValueNamesToken ==
  (src = "text" /\ Finished) =>
    \A c \in ValueContexts, x \in NotAValue, r \in Rests :
      _jsonText = c \o <<x>> \o r
        => (Failed /\ ex = ParserException("Unexpected token: ", <<x>>))

C10_Witness ==
  /\ src = "text" /\ Failed
  /\ _jsonText = <<"{", "\"", "a", "\"", ":", "}">>
  /\ _tokenIterator = 3
  /\ ex = ParserException("Unexpected token: ", <<"}">>)

\* ------------------------------------------------------------------------
\* Properties of the reader, continued

\* C17: trailing content is not rejected: a text that is one complete value
\* followed by further tokens is read successfully, the result is the first
\* value, and the tokens after it are left unconsumed.
C17_TrailingNotRejected ==
  (src = "text" /\ Finished /\ _jsonText \in TrailingTexts) =>
    \A fv \in FirstValues, t \in Trailers :
      _jsonText = Compact(fv) \o t =>
        /\ Returned
        /\ value = read(Compact(fv)).value
        /\ _tokenIterator = Len(LexSeq(fv))
        /\ _tokenIterator < Len(_tokens)

\* the control character, or the character itself, that an escape yields
Unescape(c) ==
  CASE c = "b" -> BS
    [] c = "f" -> "\f"
    [] c = "n" -> "\n"
    [] c = "r" -> "\r"
    [] c = "t" -> "\t"
    [] OTHER -> c

\* C18: string escapes: in a quoted string \/ \" \\ yield the escaped
\* character and \b \f \n \r \t the control character; a backslash followed
\* by any other character (u included) fails with "Unrecognized escape
\* sequence: \" and that character; an escaped quote does not end the string.
C18_StringEscapes ==
  (src = "text" /\ Finished /\ _jsonText \in EscapeTexts) =>
    /\ \A pre \in Affixes, c \in EscapeChars, post \in Affixes :
         _jsonText = Quoted(Escaped(pre, c, post)) =>
           IF c \in Escapable
           THEN /\ Returned
                /\ value._type = VString
                /\ value._string = pre \o <<Unescape(c)>> \o post
           ELSE /\ Failed
                /\ ex = ParserException("Unrecognized escape sequence: \\", <<c>>)
    /\ \A pre \in Affixes :
         _jsonText = <<"\"">> \o Escaped(pre, "\"", <<>>) =>
           Failed /\ ex = ParserException("Expected: \" ", <<>>)

\* the text "a\"a" has been read as the string a"a
C18_Witness ==
  /\ src = "text" /\ pc = "done"
  /\ _jsonText = Quoted(Escaped(<<"a">>, "\"", <<"a">>))
  /\ value._string = <<"a", "\"", "a">>

\* C19: array grammar: reading [v1,...,vn], n >= 1 and no vi with an empty
\* container in it, succeeds and yields an Array of the n values, each as
\* reading it alone yields it, in source order; also when v1 is itself an
\* array, as in [[1]] and [[1],1].
C19_ArrayGrammar ==
  (src = "text" /\ Finished /\ _jsonText \in ArrayTexts) =>
    /\ Returned
    /\ value._type = VArray
    /\ \A t \in ArrayTrees :
         _jsonText = Compact(t) =>
           /\ Len(value._array) = Len(t._array)
           /\ \A i \in 1..Len(t._array) :
                /\ i <= Len(value._array)
                /\ read(Compact(t._array[i])).ex = NoEx
                /\ value._array[i] = read(Compact(t._array[i])).value

WhitespaceOnly(text) == text # <<>> /\ \A i \in 1..Len(text) : isWhiteSpace(text[i])

NoNul(text) == \A i \in 1..Len(text) : text[i] # NUL

\* C20: end of input during dispatch: when the tokenizer is at the end of the
\* input after skipping whitespace, scan fails with "Unexpected start
\* sequence: " and appends no token: a text of whitespace only is never read
\* successfully, and in a text without the character NUL no token stands
\* for the end of the input.
C20_EndOfInputInDispatch ==
  /\ (src = "text" /\ Finished /\ WhitespaceOnly(_jsonText))
       => (Failed /\ ex.msg = "Unexpected start sequence: ")
  /\ NoNul(_jsonText) =>
       \A i \in 1..Len(_tokens) : _tokens[i].type = JsonTokenEmpty => _tokens[i].value # <<>>

\* the tag of a number with and without a fractional part
TagOf(number) == IF number.fp = <<>> THEN VInt ELSE VDouble

\* C21: parseNumber tags the value Int exactly when the number the token
\* denotes has no fractional part and Double otherwise, whatever the spelling
\* (3, 3.0, 3e0, 0.3e1 and 30e-1 are Int, 3.5 and 35e-1 are Double), stores
\* the number, and consumes exactly one token.
C21_TaggedByFraction ==
  (src = "text" /\ Finished /\ _jsonText \in SpelledTexts) =>
    /\ Returned
    /\ \A s \in NumberSpellings :
         _jsonText = s.text =>
           /\ value._type = TagOf(s.number)
           /\ value._double = s.number
           /\ _tokenIterator = 1
    /\ \A s, t \in NumberSpellings :
         _jsonText = PairText(s.text, t.text) =>
           /\ Len(value._array) = 2
           /\ value._array[1]._type = TagOf(s.number) /\ value._array[1]._double = s.number
           /\ value._array[2]._type = TagOf(t.number) /\ value._array[2]._double = t.number

\* 3e0 has been read as Int and 35e-1, next to it, as Double
C21_Witness ==
  /\ src = "text" /\ pc = "done"
  /\ _jsonText = PairText(<<"3", "e", "0">>, <<"3", "5", "e", "-", "1">>)
  /\ value._array[1]._type = VInt
  /\ value._array[2]._type = VDouble

\* C22: two-phase ordering: the parser starts only when the whole text has
\* been tokenized; when the tokenizer throws, its exception is what read
\* throws, whatever errors of grammar precede the offending character (as in
\* {"a":} @), and the caller's value and the cursor have not been touched.
C22_TwoPhase ==
  /\ pc \in {"parse", "done", "rewritten"} => eos(_jsonText, _actualPos)
  /\ pc = "scan" => (value = JsonValue_new /\ _tokenIterator = 0)
  /\ (src = "text" /\ Failed /\ NoNul(_jsonText)) =>
       (scan(_jsonText, 0, <<>>).ex # NoEx =>
          /\ ex = scan(_jsonText, 0, <<>>).ex
          /\ value = JsonValue_new
          /\ _tokenIterator = 0)
  /\ (Finished /\ _jsonText \in LateLexTexts) =>
       (Failed /\ ex = ParserException("Unexpected start sequence: ", <<"@">>))

\* {"a":} @ has failed on the character @
C22_Witness ==
  /\ Failed
  /\ _jsonText = <<"{", "\"", "a", "\"", ":", "}", " ", "@">>
  /\ ex = ParserException("Unexpected start sequence: ", <<"@">>)
  /\ Len(_tokens) = 4

\* what follows an opening quote, from the character i of the text on:
\* "closed" by a quote that no backslash precedes, "bad" when a backslash
\* with a character that is not one of the escapes comes first, else "open"
RECURSIVE StringEnd(_, _)
StringEnd(text, i) ==
  IF i > Len(text) THEN "open"
  ELSE IF text[i] = "\"" THEN "closed"
  ELSE IF text[i] = "\\" /\ i < Len(text)
  THEN IF text[i + 1] \in Escapable THEN StringEnd(text, i + 2) ELSE "bad"
  ELSE StringEnd(text, i + 1)

\* the tokenizer is about to scan a string
AtQuote == pc = "scan" /\ peek(_jsonText, eatWhitespace(_jsonText, _actualPos)) = "\""

\* the 1-based position of the first character after that quote
AfterQuote == eatWhitespace(_jsonText, _actualPos) + 2

RECURSIVE Layout(_, _)
RECURSIVE LayoutMembers(_, _, _)
RECURSIVE LayoutElements(_, _, _)

LayoutMembers(obj, keys, d) ==
  IF keys = <<>> THEN <<>>
  ELSE Tabs(d + 1) \o Quoted(Head(keys)) \o <<" ", ":", " ">> \o Layout(obj[Head(keys)], d + 1)
       \o (IF Tail(keys) # <<>> THEN <<",">> ELSE <<>>) \o <<"\n">>
       \o LayoutMembers(obj, Tail(keys), d)

LayoutElements(array, i, d) ==
  IF i > Len(array) THEN <<>>
  ELSE Tabs(d + 1) \o Layout(array[i], d + 1)
       \o (IF i < Len(array) THEN <<",">> ELSE <<>>) \o <<"\n">>
       \o LayoutElements(array, i + 1, d)

Layout(t, d) ==
  CASE t._type = VObject /\ DOMAIN t._object # {} ->
         <<"{", "\n">> \o LayoutMembers(t._object, SortedKeys(DOMAIN t._object), d)
           \o Tabs(d) \o <<"}">>
    [] t._type = VObject /\ DOMAIN t._object = {} -> <<"{">> \o Tabs(d) \o <<"}">>
    [] t._type = VArray /\ t._array # <<>> ->
         <<"[", "\n">> \o LayoutElements(t._array, 1, d) \o Tabs(d) \o <<"]">>
    [] t._type = VArray /\ t._array = <<>> -> <<"[">> \o Tabs(d) \o <<"]">>
    [] OTHER -> writeValue(JsonWriter_new, t)._output

\* t and the values in it
RECURSIVE Subtrees(_)
Subtrees(t) ==
  {t} \cup UNION {Subtrees(t._object[k]) : k \in DOMAIN t._object}
      \cup UNION {Subtrees(t._array[i]) : i \in DOMAIN t._array}

\* C25: the layout of the serializer: a container with n >= 1 children that
\* is written at depth d is its opening bracket and a newline, then for each
\* child a line that starts with d + 1 tabs (and the key, " : ", for a
\* member), with a comma after every child but the last, then d tabs and the
\* closing bracket; every call of write returns with the depth counter it was
\* called with, so the counter is the nesting depth, never negative, and 0
\* when write returns.
C25_Layout ==
  (src = "tree" /\ pc # "write") =>
    /\ _jsonText = Layout(v, 0)
    /\ writeValue(JsonWriter_new, v)._depth = 0
    /\ \A t \in Subtrees(v), d \in 0..MaxNodes :
         writeValue([_output |-> <<>>, _depth |-> d], t)._depth = d

\* an array in an array has been written: its element starts with two tabs
\* and its closing bracket with one
C25_Witness ==
  /\ src = "tree" /\ pc = "scan"
  /\ _jsonText = <<"[", "\n", "\t", "[", "\n", "\t", "\t", "t", "r", "u", "e", "\n",
                    "\t", "]", "\n", "]">>

\* the tags of t and of the values in it
TagsIn(t) == {u._type : u \in Subtrees(t)}

ParsedTags == {VEmpty, VBoolean, VInt, VDouble, VString, VObject, VArray}

C30_IntInRange ==
  (src = "text" /\ pc = "done") =>
    \A u \in Subtrees(value) :
      u._type = VInt =>
        /\ InIntRange(u._double)
        /\ getInt(u) = u._double
        /\ writeValue(JsonWriter_new, u)._output = to_string(u._double)

IsIteration(u) == u.op = "iteration"

IsIncrement(u) == u.op = "inc"

\* every read and every increment happens before the end of tokens, the
\* positions never go down, every completed iteration ends further on than
\* it began, and there are at most as many iterations as tokens
CursorSafe(tokens, uses) ==
  /\ \A k \in DOMAIN uses :
       IF IsIteration(uses[k])
       THEN uses[k].from < uses[k].at /\ uses[k].at <= Len(tokens)
       ELSE uses[k].at < Len(tokens)
  /\ \A j, k \in DOMAIN uses : j < k => uses[j].at <= uses[k].at
  /\ Len(SelectSeq(uses, IsIteration)) <= Len(tokens)

\* C28: in every run of the parser over a token list the cursor only moves
\* forward and never past the end of the list, the current token is read
\* only while the cursor is before the end, and each iteration of the loops
\* of the object and array productions consumes at least one token, so that
\* parsing terminates.
C28_CursorSafety ==
  [][Parse =>
       LET r == parseValueUses(_tokens, _tokenIterator)
       IN  /\ CursorSafe(_tokens, r.uses)
           /\ _tokenIterator' = r.it
           /\ _tokenIterator' = _tokenIterator + Len(SelectSeq(r.uses, IsIncrement))
           /\ _tokenIterator' <= Len(_tokens)
           /\ ex' = r.ex]_vars

\* [1,[1]] was parsed: the iteration of the inner loop completed within the
\* second iteration of the outer one
C28_Witness ==
  /\ pc = "done"
  /\ _jsonText = <<"[", "1", ",", "[", "1", "]", "]">>
  /\ _tokenIterator = Len(_tokens)
  /\ SelectSeq(parseValueUses(_tokens, 0).uses, IsIteration)
       = <<Iterated(1, 3), Iterated(4, 5), Iterated(3, 6)>>

\* ------------------------------------------------------------------------
\* Properties of the value model

size(data) == Len(data)

\* C11: JsonArray::at(pos) fails with an out-of-range error for every
\* pos >= size(), pos = size() included, and leaves the array as it was; for
\* pos < size() it returns the element stored at pos.
C11_AtChecksRange ==
  [][\A this \in Locs, pos \in 0..MaxLocs :
       At(this, pos) =>
         IF pos >= size(heap[this]._array)
         THEN err'.class = "std::out_of_range" /\ heap' = heap
         ELSE err' = NoThrow /\ ret' = Ref(heap[this]._array[pos + 1]) /\ heap' = heap]_vars

\* at(3) has failed on an array of size 3
C11_Witness ==
  /\ a # NoLoc /\ heap[a]._type = VArray /\ size(heap[a]._array) = 3
  /\ err = out_of_range("vector::_M_range_check", <<"3">>)

\* C12: JsonObject::get(key) on an absent key fails with an out-of-range
\* error and leaves the object as it was; on a present key it returns that
\* key's value; it never adds an entry.
C12_GetNeverAdds ==
  [][\A this \in Locs, key \in Keys :
       Get(this, key) =>
         LET nodes == heap[this]._object
             i == map_find(nodes, key)
         IN  /\ heap' = heap
             /\ IF i = 0
                THEN err'.class = "std::out_of_range"
                ELSE err' = NoThrow /\ ret' = Ref(nodes[i].second)]_vars

\* get has failed on an object that has a member, but not the key asked for
C12_Witness ==
  /\ a # NoLoc /\ heap[a]._type = VObject /\ size(heap[a]._object) = 1
  /\ err = out_of_range("no element '%s' found in caontainer", <<"b">>)

\* the keys of the nodes of a std::map
KeysOf(nodes) == {nodes[i].first : i \in 1..Len(nodes)}

\* no key occurs in two nodes
UniqueKeys(nodes) == \A i, j \in 1..Len(nodes) : nodes[i].first = nodes[j].first => i = j

\* C13: after insert, operator[], erase and clear each key of a JsonObject
\* occurs once and size() is the number of distinct keys; insert and
\* operator[] on an existing key leave size() unchanged, insert replaces the
\* value, and operator[] on an absent key adds exactly one entry, of tag
\* Empty.
C13_KeysUnique ==
  [][/\ \A l \in Locs :
          UniqueKeys(heap'[l]._object)
            /\ size(heap'[l]._object) = Cardinality(KeysOf(heap'[l]._object))
     /\ \A this \in Locs, key \in Keys, val \in ValueArgs :
          Insert(this, key, val) =>
            LET nodes == heap'[this]._object
            IN  /\ KeysOf(nodes) = KeysOf(heap[this]._object) \cup {key}
                /\ key \in KeysOf(heap[this]._object) => size(nodes) = size(heap[this]._object)
                /\ Load(heap', nodes[map_find(nodes, key)].second) = val
     /\ \A this \in Locs, key \in Keys :
          Index(this, key) =>
            LET nodes == heap'[this]._object
            IN  IF key \in KeysOf(heap[this]._object)
                THEN heap' = heap
                ELSE /\ size(nodes) = size(heap[this]._object) + 1
                     /\ KeysOf(nodes) = KeysOf(heap[this]._object) \cup {key}
                     /\ heap'[ret'.ref] = JsonValue_new
                     /\ ret' = Ref(nodes[map_find(nodes, key)].second)]_vars

\* operator[] has added the key b, with an Empty value, to an object that
\* held the key a
C13_Witness ==
  /\ a # NoLoc /\ heap[a]._type = VObject
  /\ KeysOf(heap[a]._object) = {<<"a">>, <<"b">>}
  /\ ret = Ref(heap[a]._object[2].second)
  /\ heap[heap[a]._object[2].second] = JsonValue_new

\* C14: each typed constructor sets the tag and the payload: the value
\* constructed from x has the matching tag and its getter returns x, and
\* the default constructor gives the tag Empty.
C14_ConstructorsStore ==
  [][/\ Emplace(JsonValue_new) => heap'[a']._type = VEmpty
     /\ \A x \in BOOLEAN :
          Emplace(JsonValue_bool(x)) => heap'[a']._type = VBoolean /\ heap'[a']._bool = x
     /\ \A x \in {Five} :
          Emplace(JsonValue_int(x)) => heap'[a']._type = VInt /\ getInt(heap'[a']) = x
     /\ \A x \in {7} :
          Emplace(JsonValue_int64(x)) => heap'[a']._type = VInt64 /\ heap'[a']._integer64 = x
     /\ \A x \in {7} :
          Emplace(JsonValue_uint64(x)) => heap'[a']._type = VUint64 /\ heap'[a']._uint64 = x
     /\ \A x \in {ThreeAndHalf} :
          Emplace(JsonValue_double(x)) => heap'[a']._type = VDouble /\ heap'[a']._double = x
     /\ \A x \in {<<"a">>} :
          Emplace(JsonValue_string(x)) => heap'[a']._type = VString /\ heap'[a']._string = x
     /\ \A x \in ObjectArgs :
          Emplace(JsonValue_object(x)) =>
            heap'[a']._type = VObject /\ Load(heap', a')._object = x
     /\ \A x \in ArrayArgs :
          Emplace(JsonValue_array(x)) =>
            heap'[a']._type = VArray /\ Load(heap', a')._array = x]_vars

\* C15: a conversion operator succeeds, and returns the payload, exactly
\* when the tag is the one of its target type; otherwise it fails with
\* std::bad_cast; the value is unchanged either way, and no conversion
\* succeeds on a value of tag Empty.
C15_ConversionsCheckTag ==
  [][\A this \in Locs, target \in Targets :
       Convert(this, target) =>
         /\ heap' = heap
         /\ IF heap[this]._type = TargetType(target)
            THEN err' = NoThrow /\ ret' = getter(heap[this], target)
            ELSE err' = bad_cast
         /\ heap[this]._type = VEmpty => err' = bad_cast]_vars

\* a conversion of a value of tag Empty has failed
C15_Witness ==
  a # NoLoc /\ b = NoLoc /\ heap[a]._type = VEmpty /\ calls = 2 /\ err = bad_cast

\* a call that may change the value at this
Mutate(this) ==
  \/ \E type \in TypeArgs : SetType(this, type)
  \/ SetBool(this, TRUE)
  \/ \E key \in Keys, val \in ValueArgs : Insert(this, key, val)
  \/ \E name \in Keys : Index(this, name)
  \/ \E key \in Keys : EraseKey(this, key)
  \/ ClearObject(this)
  \/ \E val \in ValueArgs : PushBack(this, val)
  \/ \E i \in 0..MaxLocs : EraseAt(this, i)
  \/ ClearArray(this)

\* C16: a copy-constructed or assigned value equals its source in the tag
\* and in every payload field, at every depth, and owns none of the values
\* its source owns; a later mutation of the copy, at any depth, leaves the
\* source unchanged, and a mutation of the source leaves the copy unchanged.
C16_DeepCopy ==
  [][/\ CopyConstruct => Load(heap', b') = Load(heap, a) /\ Load(heap', a) = Load(heap, a)
     /\ \A lhs \in Locs, rhs \in Locs :
          Assign(lhs, rhs) =>
            Load(heap', lhs) = Load(heap, rhs) /\ Load(heap', rhs) = Load(heap, rhs)
     /\ (a' # NoLoc /\ b' # NoLoc) => Owned(heap', a') \cap Owned(heap', b') = {}
     /\ \A this \in Locs :
          (a # NoLoc /\ b # NoLoc /\ Mutate(this)) =>
            /\ this \in Owned(heap, b) => Load(heap', a) = Load(heap, a)
            /\ this \in Owned(heap, a) => Load(heap', b) = Load(heap, b)]_vars

\* b was copied from a = {"a": [true]}, and the element of the array that b
\* owns was then erased: a still is what it was
C16_Witness ==
  /\ a # NoLoc /\ b # NoLoc /\ calls = 3
  /\ Load(heap, a) = JsonValue_object(JsonObject_insert(JsonObject_new, <<"a">>, JsonValue_array(OneElement)))
  /\ heap[b]._type = VObject /\ size(heap[b]._object) = 1
  /\ size(heap[heap[b]._object[1].second]._array) = 0

\* ------------------------------------------------------------------------
\* Properties of reading into, setting and writing a value in storage

\* the keys of the nodes, in the order of iteration from begin() to end()
Iteration(nodes) == [i \in 1..Len(nodes) |-> nodes[i].first]

Ascending(keys) == \A i, j \in 1..Len(keys) : i < j => StrLess(keys[i], keys[j])

\* the position at which pat first occurs in text, 0 when it does not occur
FirstIndex(text, pat) ==
  LET at == {i \in 1..(Len(text) - Len(pat) + 1) : SubSeq(text, i, i + Len(pat) - 1) = pat}
  IN  IF at = {} THEN 0 ELSE CHOOSE i \in at : \A j \in at : i <= j

\* the start of the line of the member key in the output of write
MemberLine(key) == <<"\t">> \o Quoted(key) \o <<" ", ":", " ">>

\* write has just returned the text of the value a
Written == ret.type = "std::string" /\ a # NoLoc

\* C24: object members are iterated and written in ascending order of their
\* keys, whatever the order of the calls of insert and the order of the
\* members in the text that was read: in every object in storage the keys
\* from begin() to end() ascend, and in the text that write returns for an
\* object the line of a smaller key comes before the line of a larger one.
C24_MembersInKeyOrder ==
  /\ \A l \in Locs : Ascending(Iteration(heap[l]._object))
  /\ (Written /\ heap[a]._type = VObject) =>
       \A k1 \in KeysOf(heap[a]._object), k2 \in KeysOf(heap[a]._object) :
         StrLess(k1, k2) =>
           /\ FirstIndex(ret.string, MemberLine(k1)) > 0
           /\ FirstIndex(ret.string, MemberLine(k1)) < FirstIndex(ret.string, MemberLine(k2))

\* an object with the members b and a has been written, a first
C24_Witness ==
  /\ Written /\ heap[a]._type = VObject
  /\ KeysOf(heap[a]._object) = {<<"a">>, <<"b">>}
  /\ FirstIndex(ret.string, MemberLine(<<"a">>)) = 3
  /\ FirstIndex(ret.string, MemberLine(<<"b">>)) > 3

\* the tree as its tag shows it: the tag, the payload the tag names, and for
\* a container its members or elements
RECURSIVE Visible(_)
Visible(t) ==
  [JsonValue_new EXCEPT
     !._type = t._type,
     !._bool = IF t._type = VBoolean THEN t._bool ELSE FALSE,
     !._double = IF t._type \in {VInt, VDouble} THEN t._double ELSE Zero,
     !._integer64 = IF t._type = VInt64 THEN t._integer64 ELSE 0,
     !._uint64 = IF t._type = VUint64 THEN t._uint64 ELSE 0,
     !._string = IF t._type = VString THEN t._string ELSE <<>>,
     !._object = IF t._type = VObject
                 THEN [k \in DOMAIN t._object |-> Visible(t._object[k])] ELSE <<>>,
     !._array = IF t._type = VArray
                THEN [i \in DOMAIN t._array |-> Visible(t._array[i])] ELSE <<>>]

\* C27: the result of read(text, value) depends on text only: whatever value
\* holds before the call, read succeeds exactly when it succeeds on a
\* default-constructed value, and then leaves the same tree.
C27_DependsOnTextOnly ==
  [][\A this \in Locs, text \in ApiTexts :
       ReadInto(this, text) =>
         /\ (err' = NoThrow) <=> (read(text).ex = NoEx)
         /\ err' = NoThrow => Visible(Load(heap', this)) = Visible(read(text).value)]_vars

\* the tag and the payload fields of a JsonValue
Fields == {"_double", "_integer64", "_uint64", "_bool", "_string", "_object", "_array", "_type"}

\* the step changes no field of the value at this but field, and nothing in
\* the values at the other locations
OnlyField(this, field) ==
  /\ \A f \in Fields \ {field} : heap'[this][f] = heap[this][f]
  /\ \A l \in Locs \ {this} : heap'[l] = heap[l]

\* the locations of the values the container field of the value at this holds
Held(h, this, field) ==
  IF field = "_object" THEN {h[this]._object[i].second : i \in 1..Len(h[this]._object)}
  ELSE {h[this]._array[i] : i \in 1..Len(h[this]._array)}

\* the step changes no field of the value at this but its container field,
\* and no value but those the container owned or owns
OnlyContainer(this, field) ==
  /\ \A f \in Fields \ {field} : heap'[this][f] = heap[this][f]
  /\ \A l \in Locs \ {this} :
       \/ heap'[l] = heap[l]
       \/ \E c \in Held(heap, this, field) : l \in Owned(heap, c)
       \/ \E d \in Held(heap', this, field) : l \in Owned(heap', d)

\* C29: the setters change their own payload only: setNumber, setInt64,
\* setUint64, setBool and setString overwrite one payload field with their
\* argument, setObject and setArray replace the members and the elements, and
\* each leaves the tag and every other payload field as they were; setType
\* changes the tag and nothing else.
C29_SettersFrame ==
  [][\A this \in Locs :
       /\ SetNumber(this, ThreeAndHalf) =>
            (heap'[this]._double = ThreeAndHalf /\ OnlyField(this, "_double"))
       /\ SetInt64(this, 7) => (heap'[this]._integer64 = 7 /\ OnlyField(this, "_integer64"))
       /\ SetUint64(this, 7) => (heap'[this]._uint64 = 7 /\ OnlyField(this, "_uint64"))
       /\ SetBool(this, TRUE) => (heap'[this]._bool = TRUE /\ OnlyField(this, "_bool"))
       /\ SetString(this, <<"b">>) =>
            (heap'[this]._string = <<"b">> /\ OnlyField(this, "_string"))
       /\ SetObject(this, OneMember) =>
            /\ Load(heap', this)._object = OneMember
            /\ OnlyContainer(this, "_object")
            /\ heap'[this]._array = heap[this]._array
       /\ SetArray(this, OneElement) =>
            /\ Load(heap', this)._array = OneElement
            /\ OnlyContainer(this, "_array")
            /\ heap'[this]._object = heap[this]._object
       /\ \A type \in Tags :
            SetType(this, type) => (heap'[this]._type = type /\ OnlyField(this, "_type"))]_vars

\* a value with the tag Object and a member of its own has been given a string
\* and a bool: the tag still says Object and the member is still there
C29_Witness ==
  /\ a # NoLoc
  /\ heap[a]._type = VObject
  /\ Len(heap[a]._object) = 1
  /\ heap[a]._string = <<"b">>
  /\ heap[a]._bool = TRUE

====
